---- MODULE Spec2Model ----
(***************************************************************************)
(* Custom-resource lifecycle handlers of tollingvision/sar-cluster.        *)
(*                                                                         *)
(* Two Lambda entry points are modelled, each one invocation at a time:    *)
(*   lf : src/src/lambda_function.py   (VpcLink, AutoScaling, WAF, ...)    *)
(*   cf : src/src/cloudfront_manager.py (CloudFront resources)             *)
(*                                                                         *)
(* An invocation is a walk of pc through the handler's code.  Every remote *)
(* call, sleep and callback PUT is one step whose response is chosen from  *)
(* the responses the remote side can give.  obs is the history of what the *)
(* invocation did (calls issued, budget checks that failed, ...).          *)
(***************************************************************************)
EXTENDS Integers, Sequences, FiniteSets, TLC

VARIABLES
    event,      \* the lifecycle event of this invocation; seq counts its deliveries
    pc,         \* position in the handler's code
    exc,        \* exception propagating to lambda_handler's except clauses
    budget,     \* lf: 0 in budget, 1 over the operation ceiling, 2 below the emergency margin
    alarm,      \* cf: SIGALRM of TimeoutHandler: "idle", "armed", "fired" (inside the with
                \* block), and after the block "off" or, when it had fired, "spent"
    attempt,    \* loop index of the retry / poll loop being executed
    ret,        \* what the resource handler returned: Data.Status and whether Data has Error
    resp,       \* the response the dispatcher decided to send
    puts,       \* the callback PUT attempts made, in order
    remote,     \* the remote objects the handlers compare against
    obs,        \* history of the invocation
    normalizer, \* a distribution config, and what clean_distribution_config made of it
    timer,      \* the readings one TimeoutHandler.check_timeout call sees, and its answer
    backoff,    \* a retry loop on its own: its kind, its attempt index and its sleeps so far
    store       \* the remote objects that repeated Creates of one resource have left

\* the state of the pure functions, which no step of an invocation touches
funcs == <<normalizer, timer, backoff, store>>

vars ==
    <<event, pc, exc, budget, alarm, attempt, ret, resp, puts, remote, obs, normalizer, timer,
      backoff, store>>

-----------------------------------------------------------------------------
(* Bounds of the model *)

\* poll iterations that may end without a terminal status before the wait is over
MaxPoll == 2

\* errors other than conflicts that the remote side answers to one retry loop
MaxOthers == 2

-----------------------------------------------------------------------------
(* Program constants *)

SUCCESS == "SUCCESS"
FAILED == "FAILED"

RESOURCE_TYPES == {"VpcLink", "AutoScaling", "LaunchTemplate", "WAF", "CognitoClientSecret"}

CF_RESOURCE_TYPES ==
    {"PublicKey", "KeyGroup", "OriginAccessControl", "Function", "PathRewriteFunction",
     "HostedZoneLookup", "DistributionUpdate", "ResponsePolicy", "LambdaCodeUpdate", "Test"}

RequestTypes == {"Create", "Update", "Delete"}

\* Python exception classes that occur, and isinstance(e, cls)
ExceptionClasses == {"ValueError", "TimeoutError", "ClientError", "KeyError", "RuntimeError"}

IsInstance(e, cls) == cls = "Exception" \/ e = cls

\* index of the first except clause that catches e, 0 when none does
RECURSIVE FirstMatch(_, _, _)
FirstMatch(clauses, e, i) ==
    IF i > Len(clauses) THEN 0
    ELSE IF IsInstance(e, clauses[i]) THEN i
    ELSE FirstMatch(clauses, e, i + 1)

Handles(clauses, e) == FirstMatch(clauses, e, 1)

-----------------------------------------------------------------------------
(* clean_distribution_config (cloudfront_manager.py): the payload             *)
(*                                                                            *)
(* A JSON value is a record tagged with its Python type.  A dict is a         *)
(* function from its keys, a list is a sequence.                              *)

VNone == [t |-> "none"]
VStr(s) == [t |-> "str", s |-> s]
VInt(n) == [t |-> "int", n |-> n]
VList(l) == [t |-> "list", l |-> l]
VDict(d) == [t |-> "dict", d |-> d]

\* not a value: in a table of choices it marks a key the dict does not have
Missing == [t |-> "missing"]

MkDict(f) == VDict([k \in {x \in DOMAIN f : f[x] # Missing} |-> f[k]])

\* obj.get(k)
dict_get(obj, k) == IF k \in DOMAIN obj.d THEN obj.d[k] ELSE VNone

\* obj.pop(k, None)
dict_pop(obj, k) == VDict([x \in DOMAIN obj.d \ {k} |-> obj.d[x]])

\* obj[k] = v
dict_set(obj, k, v) == VDict([x \in DOMAIN obj.d \cup {k} |-> IF x = k THEN v ELSE obj.d[x]])

PRESERVE_EMPTY_PATHS ==
    { <<"Comment">>,
      <<"WebACLId">>,
      <<"DefaultRootObject">>,
      <<"Origins", "Items", "*", "OriginPath">>,
      <<"Origins", "Items", "*", "S3OriginConfig", "OriginAccessIdentity">>,
      <<"DefaultCacheBehavior", "FieldLevelEncryptionId">>,
      <<"CacheBehaviors", "Items", "*", "FieldLevelEncryptionId">> }

\* a preserve-list read without its wildcard
_is_preserved_empty_exact(path_tuple) == path_tuple \in PRESERVE_EMPTY_PATHS

_is_preserved_empty(path_tuple) ==
    \E pat \in PRESERVE_EMPTY_PATHS :
        /\ Len(pat) = Len(path_tuple)
        /\ \A i \in 1..Len(pat) : pat[i] = "*" \/ pat[i] = path_tuple[i]

\* a general rule that would also remove the keys holding an empty dict
kept_keys_pruning(d, path) ==
    {k \in DOMAIN d : /\ d[k] # VNone
                      /\ d[k] # VDict(<<>>)
                      /\ ~(d[k] = VStr("") /\ ~_is_preserved_empty(Append(path, k)))}

\* the keys of a dict that the general rule of _clean keeps
kept_keys(d, path) ==
    {k \in DOMAIN d : /\ d[k] # VNone
                      /\ ~(d[k] = VStr("") /\ ~_is_preserved_empty(Append(path, k)))}

\* the special rule of _clean: ForwardedValues goes when CachePolicyId is there
drop_legacy(obj) ==
    IF "CachePolicyId" \in DOMAIN obj.d /\ "ForwardedValues" \in DOMAIN obj.d
    THEN dict_pop(obj, "ForwardedValues")
    ELSE obj

RECURSIVE _clean(_, _)
_clean(obj, path) ==
    IF obj.t = "dict"
    THEN LET d == drop_legacy(obj).d
         IN  VDict([k \in kept_keys(d, path) |-> _clean(d[k], Append(path, k))])
    ELSE IF obj.t = "list"
    THEN VList([idx \in DOMAIN obj.l |-> _clean(obj.l[idx], Append(path, ToString(idx - 1)))])
    ELSE obj

COLLECTION_PATHS ==
    << <<"Aliases">>,
       <<"Origins">>,
       <<"CacheBehaviors">>,
       <<"CustomErrorResponses">>,
       <<"OrderedCacheBehaviors">>,
       <<"DefaultCacheBehavior", "LambdaFunctionAssociations">>,
       <<"DefaultCacheBehavior", "FunctionAssociations">> >>

RECURSIVE get_nested(_, _)
get_nested(cur, keys) ==
    IF keys = <<>> THEN cur
    ELSE IF cur.t # "dict" THEN VNone
    ELSE get_nested(dict_get(cur, Head(keys)), Tail(keys))

\* the container with the object at keys replaced: the code changes it in place
RECURSIVE set_nested(_, _, _)
set_nested(cur, keys, v) ==
    IF keys = <<>> THEN v
    ELSE dict_set(cur, Head(keys), set_nested(cur.d[Head(keys)], Tail(keys), v))

\* what the body of the loop of _fix_quantities does to one collection
fix_collection(coll_dict) ==
    LET items == dict_get(coll_dict, "Items")
    IN  IF items.t = "list"
        THEN LET new_qty == Len(items.l)
                 counted == IF dict_get(coll_dict, "Quantity") # VInt(new_qty)
                            THEN dict_set(coll_dict, "Quantity", VInt(new_qty))
                            ELSE coll_dict
             IN  IF new_qty = 0 THEN dict_pop(counted, "Items") ELSE counted
        ELSE coll_dict

fix_at(cfg, coll) ==
    LET parent == get_nested(cfg, SubSeq(coll, 1, Len(coll) - 1))
        last_key == coll[Len(coll)]
    IN  IF parent.t = "dict" /\ dict_get(parent, last_key).t = "dict"
        THEN set_nested(cfg, coll, fix_collection(parent.d[last_key]))
        ELSE cfg

RECURSIVE fix_from(_, _)
fix_from(cfg, i) ==
    IF i > Len(COLLECTION_PATHS) THEN cfg ELSE fix_from(fix_at(cfg, COLLECTION_PATHS[i]), i + 1)

_fix_quantities(cfg) == fix_from(cfg, 1)

clean_distribution_config(config) == _fix_quantities(_clean(config, <<>>))

\* _clean and _fix_quantities change their argument in place.  Had they worked on
\* config.copy(), the nested dicts and lists of the caller's payload would be the
\* ones changed, and only its top-level keys would be out of reach.
payload_after_copy(config, cleaned) ==
    VDict([k \in DOMAIN config.d |->
             IF k \in DOMAIN cleaned.d /\ config.d[k].t \in {"dict", "list"}
             THEN cleaned.d[k]
             ELSE config.d[k]])

\* what the caller's payload holds when clean_distribution_config has returned:
\* the function works on deepcopy(config), which shares no part with config
payload_after(config, cleaned) == config

\* the edits update_distribution makes before it cleans the config, as far as the
\* payload here goes: the FieldLevelEncryptionId placeholder of the default behavior
with_placeholder(config) ==
    LET behavior == dict_get(config, "DefaultCacheBehavior")
    IN  IF behavior.t = "dict" /\ "FieldLevelEncryptionId" \notin DOMAIN behavior.d
        THEN dict_set(config, "DefaultCacheBehavior",
                      dict_set(behavior, "FieldLevelEncryptionId", VStr("")))
        ELSE config

\* _zero_fn_associations on the default behavior: associations that count more than
\* zero are replaced by an empty collection, and the placeholder is set
_zero_fn_associations(config) ==
    LET behavior == dict_get(config, "DefaultCacheBehavior")
        fa == IF behavior.t = "dict" THEN dict_get(behavior, "FunctionAssociations") ELSE VNone
        counted == fa.t = "dict" /\ dict_get(fa, "Quantity").t = "int"
                      /\ dict_get(fa, "Quantity").n > 0
    IN  IF counted
        THEN with_placeholder(
                 dict_set(config, "DefaultCacheBehavior",
                          dict_set(behavior, "FunctionAssociations",
                                   VDict([Quantity |-> VInt(0), Items |-> VList(<<>>)]))))
        ELSE config

\* a write that would send the config as it was edited
DistributionConfig_as_edited(config) == config

\* the DistributionConfig argument of cloudfront.update_distribution
DistributionConfig_written(config) == clean_distribution_config(config)

\* configurations a distribution can have when the handler reads it: with a cache
\* policy and a function association, or with the legacy ForwardedValues and none
DistributionConfigs ==
    { VDict([Comment |-> VStr(""),
             Origins |-> VDict([Quantity |-> VInt(1),
                                Items |-> VList(<<VDict([Id |-> VStr("x"),
                                                         OriginPath |-> VStr("")])>>)]),
             DefaultCacheBehavior |->
                 VDict([CachePolicyId |-> VStr("x"),
                        FunctionAssociations |->
                            VDict([Quantity |-> VInt(1),
                                   Items |-> VList(<<VDict([EventType |-> VStr("x"),
                                                            FunctionARN |-> VStr("x")])>>)])])]),
      VDict([Comment |-> VStr("x"),
             Aliases |-> VDict([Quantity |-> VInt(0), Items |-> VList(<<>>)]),
             Origins |-> VDict([Quantity |-> VInt(1),
                                Items |-> VList(<<VDict([Id |-> VStr("x"),
                                                         OriginPath |-> VStr("x")])>>)]),
             DefaultCacheBehavior |->
                 VDict([ForwardedValues |-> VDict([QueryString |-> VStr("x")]),
                        FieldLevelEncryptionId |-> VStr(""),
                        FunctionAssociations |-> VDict([Quantity |-> VInt(0)])])]) }

-----------------------------------------------------------------------------
(* Events *)

Names == {"a", "b"}

\* protected paths of a DistributionUpdate: lists, a path may be listed twice
Paths == {"p", "q"}
MaxPaths == 2
PathLists == UNION {[1..n -> Paths] : n \in 0..MaxPaths}

\* one field other than the verb and the kind may be absent from the event
Absent == {"none", "LogicalResourceId", "StackId", "RequestId", "ResponseURL",
           "PhysicalResourceId", "ResourceProperties", "RequiredProperty"}

Events ==
    { e \in [fn : {"lf", "cf"},
             RequestType : RequestTypes \cup {"Other", "None"},
             ResourceType : RESOURCE_TYPES \cup CF_RESOURCE_TYPES \cup {"Other", "None"},
             absent : Absent,
             Name : Names,
             cidrs : BOOLEAN,
             ProtectedPaths : PathLists,
             seq : {1}] :
        /\ e.fn = "lf" => e.ResourceType \notin CF_RESOURCE_TYPES
        /\ e.fn = "cf" => e.ResourceType \notin RESOURCE_TYPES
        /\ e.ResourceType # "VpcLink" => e.Name = "a"
        /\ e.ResourceType # "WAF" => ~e.cidrs
        /\ e.ResourceType # "DistributionUpdate" => e.ProtectedPaths = <<>> }

\* a WebACL as the remote side holds it: its DefaultAction and the names of its Rules
NoWebACL == [DefaultAction |-> "none", Rules |-> <<>>]
WebACLs ==
    {NoWebACL, [DefaultAction |-> "Allow", Rules |-> <<>>],
     [DefaultAction |-> "Block", Rules |-> <<"IPAllowlistRule">>]}

\* the remote objects an event can meet: a VPC link under some name, a distribution
\* with or without the self origin, with some cache behaviors and some configuration,
\* a WebACL or none
Remotes(e) ==
    { r \in [vpcName : Names, distSelf : BOOLEAN, distPatterns : {<<>>, <<"p">>},
             distConfig : DistributionConfigs, webacl : WebACLs] :
        /\ e.ResourceType # "VpcLink" => r.vpcName = "a"
        /\ e.ResourceType # "WAF" => r.webacl = NoWebACL
        /\ e.ResourceType # "DistributionUpdate" =>
              /\ ~r.distSelf /\ r.distPatterns = <<>>
              /\ r.distConfig = CHOOSE c \in DistributionConfigs : TRUE }

Has(field) == event.absent # field

NoRet == [status |-> "none", err |-> FALSE]
\* a response: Status, Data.Status, whether Data has Error, whether json.dumps accepts
\* Data, and, when it does not, the length of str(Data)
Resp(st, data, er) == [status |-> st, data |-> data, err |-> er, ser |-> TRUE, len |-> 0]

NoResp == Resp("none", "none", FALSE)

\* lengths of str(Data) of a Data that json.dumps rejects
DataLengths == {499, 501}

\* the responses a handler result can make: Data is serializable or it is not
Results(st, data, er) ==
    {Resp(st, data, er)}
      \cup {[Resp(st, data, er) EXCEPT !.ser = FALSE, !.len = n] : n \in DataLengths}

Obs0 ==
    [ reads |-> 0,            \* remote reads issued
      writes |-> 0,           \* remote creates / updates issued
      deletes |-> 0,          \* remote deletes issued
      sleeps |-> 0,           \* time.sleep calls
      budgetFound |-> FALSE,  \* a budget check found the budget exceeded
      selected |-> "none",    \* the resource handler selected
      raised |-> "none",      \* the exception that reached lambda_handler
      firstLookup |-> "none", \* response of the first remote lookup of the resource
      del |-> "none",         \* fate of the remote delete: absent, accepted, failed, gaveup, timedout
      conflicts |-> 0,        \* version-token / in-use conflicts answered by the remote side
      tokenReads |-> 0,       \* reads of the version token made by a retry loop
      others |-> 0,           \* errors other than conflicts that a retry loop retried
      lastDelete |-> "none",  \* response of the last remote delete call on the object itself
      polled |-> "none",      \* the status a convergence poll of lf read last
      loopExit |-> "none",    \* how a delete_*_with_retry function ended: returned, raised
      written |-> Missing,    \* the DistributionConfig of the last update_distribution call
      issued |-> {},          \* the remote steps of a Create handler issued so far
      succeeded |-> {},       \* those of them that returned normally
      cleanup |-> {},         \* the remote calls _cleanup_on_failure has issued
      primary |-> NoResp ]    \* the first response lambda_handler decided to send

\* the pure functions at rest
NoNormalizer ==
    [config |-> "none", input |-> "none", cleaned |-> "none", again |-> "none",
     second |-> "none", passes |-> 0]
NoTimer == [context |-> FALSE, remaining_ms |-> 0, elapsed_ms |-> 0, timed_out |-> FALSE,
            result |-> "none"]
NoBackoff == [kind |-> "none", attempt |-> 0, slept |-> <<>>]
NoStore == [kind |-> "none", name |-> "none", objects |-> {}, uuid |-> 0, creates |-> 0,
            result |-> "none"]

Init ==
    /\ event \in Events
    /\ pc = "start"
    /\ exc = "none"
    /\ budget = 0
    /\ alarm = "idle"
    /\ attempt = 0
    /\ ret = NoRet
    /\ resp = NoResp
    /\ puts = <<>>
    /\ remote \in Remotes(event)
    /\ obs = Obs0
    /\ normalizer = NoNormalizer
    /\ timer = NoTimer
    /\ backoff = NoBackoff
    /\ store = NoStore

-----------------------------------------------------------------------------
(* Control-flow helpers *)

Raise(e) == pc' = "except" /\ exc' = e

Return(st, er) == pc' = "returned" /\ ret' = [status |-> st, err |-> er] /\ exc' = exc

Respond(st, data, er, via) ==
    /\ resp' = Resp(st, data, er)
    /\ pc' = via

Count(f) == [obs EXCEPT ![f] = @ + 1]

\* o with one more remote step of a Create handler issued, and whether it returned normally
Step(o, name, ok) ==
    [o EXCEPT !.issued = @ \cup {name}, !.succeeded = IF ok THEN @ \cup {name} ELSE @]

\* the history after lambda_handler decided on a response
Decided(h, st, data, er) ==
    IF h.primary = NoResp
    THEN [h EXCEPT !.primary = Resp(st, data, er)]
    ELSE h

-----------------------------------------------------------------------------
(* Timeout budget of lambda_function.py *)

\* TimeoutHandler.check_timeout
check_timeout == budget >= 1

\* Time passes: the budget only shrinks.
Tick ==
    /\ event.fn = "lf"
    /\ pc \notin {"done", "escaped"}
    /\ budget < 2
    /\ \E b \in (budget + 1)..2 : budget' = b
    /\ UNCHANGED <<funcs, event, pc, exc, alarm, attempt, ret, resp, puts, remote, obs>>

-----------------------------------------------------------------------------
(* lambda_function.lambda_handler *)

LF_except_clauses == <<"TimeoutError", "Exception">>

\* lines 83-89: a required field of the event is missing
LF_missing_field ==
    \/ event.RequestType = "None"
    \/ event.ResourceType = "None" \/ ~Has("ResourceProperties")
    \/ ~Has("LogicalResourceId")

\* lines 77-89: extract and validate the required fields
LF_validate ==
    /\ event.fn = "lf" /\ pc = "start"
    /\ IF LF_missing_field
       THEN Raise("ValueError")
       ELSE pc' = "entry" /\ exc' = exc
    /\ UNCHANGED <<funcs, event, budget, alarm, attempt, ret, resp, puts, remote, obs>>

\* lines 93-97: timeout check before processing
LF_entry_check ==
    /\ event.fn = "lf" /\ pc = "entry"
    /\ IF budget >= 1
       THEN /\ Respond(FAILED, "none", TRUE, "emergency")
            /\ obs' = Decided([obs EXCEPT !.budgetFound = TRUE], FAILED, "none", TRUE)
       ELSE pc' = "route" /\ UNCHANGED <<resp, obs>>
    /\ UNCHANGED <<funcs, event, exc, budget, alarm, attempt, ret, puts, remote>>

\* lines 100-113: route to the resource handler
LF_route ==
    /\ event.fn = "lf" /\ pc = "route"
    /\ IF event.ResourceType \in RESOURCE_TYPES
       THEN /\ pc' = "handle" /\ exc' = exc
            /\ obs' = [obs EXCEPT !.selected = event.ResourceType]
       ELSE Raise("ValueError") /\ obs' = obs
    /\ UNCHANGED <<funcs, event, budget, alarm, attempt, ret, resp, puts, remote>>

\* handle_<kind>_resource: timeout pre-check, then dispatch on the verb
handle_resource ==
    /\ pc = "handle"
    /\ IF check_timeout
       THEN Raise("TimeoutError") /\ obs' = [obs EXCEPT !.budgetFound = TRUE] /\ ret' = ret
       ELSE /\ obs' = obs
            /\ IF event.RequestType \notin RequestTypes
               THEN Raise("ValueError") /\ ret' = ret
               ELSE IF event.ResourceType = "LaunchTemplate"
               THEN Return("none", FALSE)
               ELSE /\ pc' = event.ResourceType \o "." \o event.RequestType
                    /\ exc' = exc /\ ret' = ret
    /\ UNCHANGED <<funcs, event, budget, alarm, attempt, resp, puts, remote>>

\* lines 115-123: the handler returned
LF_success ==
    /\ event.fn = "lf" /\ pc = "returned"
    /\ resp' \in Results(SUCCESS, ret.status, ret.err)
    /\ pc' = "send"
    /\ obs' = Decided(obs, SUCCESS, ret.status, ret.err)
    /\ UNCHANGED <<funcs, event, exc, budget, alarm, attempt, ret, puts, remote>>

\* lines 125-169: the except clauses of lambda_handler
LF_except ==
    /\ event.fn = "lf" /\ pc = "except"
    /\ LET clause == Handles(LF_except_clauses, exc)
           isDelete == event.RequestType = "Delete"
       IN  CASE clause = 0 -> pc' = "escaped" /\ resp' = resp
             [] clause = 1 ->
                  IF isDelete
                  THEN Respond(SUCCESS, "TimeoutOnDelete", FALSE, "send")
                  ELSE Respond(FAILED, "none", TRUE, "emergency")
             [] OTHER ->
                  IF budget = 2
                  THEN Respond(FAILED, "none", TRUE, "emergency")
                  ELSE IF isDelete
                  THEN Respond(SUCCESS, "DeleteFailed", TRUE, "send")
                  ELSE Respond(FAILED, "none", TRUE, "send")
    /\ obs' = IF Handles(LF_except_clauses, exc) = 0
              THEN [obs EXCEPT !.raised = exc]
              ELSE Decided([obs EXCEPT !.raised = exc], resp'.status, resp'.data, resp'.err)
    /\ exc' = "none"
    /\ UNCHANGED <<funcs, event, budget, alarm, attempt, ret, puts, remote>>

-----------------------------------------------------------------------------
(* Response delivery of lambda_function.py *)

\* the fallback Data keeps str(response_data)[:500]
ORIGINAL_DATA_LIMIT == 500

Truncate(n) == IF n > ORIGINAL_DATA_LIMIT THEN ORIGINAL_DATA_LIMIT ELSE n

\* a serialization that lets the failure of json.dumps reach the caller's except clause
Serialize_strict(r) ==
    IF r.ser
    THEN [status |-> r.status, data |-> r.data, err |-> r.err, orig |-> 0]
    ELSE [status |-> FAILED, data |-> "none", err |-> TRUE, orig |-> 0]

\* the body put on the wire: when json.dumps fails, Data becomes the error marker
\* with the truncated str(Data), every other field of the envelope stays
Serialize(r) ==
    IF r.ser
    THEN [status |-> r.status, data |-> r.data, err |-> r.err, orig |-> 0]
    ELSE [status |-> r.status, data |-> "SerializationFailed", err |-> TRUE,
          orig |-> Truncate(r.len)]

Put(via, outcome) ==
    LET body == Serialize(resp)
    IN  puts' = Append(puts, [via |-> via, status |-> body.status, data |-> body.data,
                              err |-> body.err, orig |-> body.orig,
                              delivered |-> (outcome = "ok")])

\* send_cloudformation_response: one PUT; any failure falls back to the emergency response
send_cloudformation_response ==
    /\ event.fn = "lf" /\ pc = "send"
    /\ IF ~Has("ResponseURL")
       THEN /\ pc' = "done"     \* ValueError, then send_emergency_response finds no URL
            /\ UNCHANGED <<resp, puts>>
       ELSE \E outcome \in {"ok", "error"} :
              /\ Put("primary", outcome)
              /\ IF outcome = "ok"
                 THEN pc' = "done" /\ resp' = resp
                 ELSE Respond(FAILED, "none", TRUE, "emergency")
    /\ UNCHANGED <<funcs, event, exc, budget, alarm, attempt, ret, remote, obs>>

\* send_emergency_response: one PUT, every failure swallowed
send_emergency_response ==
    /\ event.fn = "lf" /\ pc = "emergency"
    /\ IF ~Has("ResponseURL")
       THEN puts' = puts
       ELSE \E outcome \in {"ok", "error"} : Put("emergency", outcome)
    /\ pc' = "done"
    /\ UNCHANGED <<funcs, event, exc, budget, alarm, attempt, ret, resp, remote, obs>>

-----------------------------------------------------------------------------
(* Remote responses.  Ok: the call succeeded; NotFound: the object does not *)
(* exist; Fatal: any other ClientError; Exc: an exception that is not a     *)
(* ClientError (connection failure, parameter validation).                  *)

\* validate_resource_properties
validate_resource_properties == Has("RequiredProperty")

-----------------------------------------------------------------------------
(* VpcLinkResource *)

\* a lookup that does not tell an absent link from a present one
_get_vpc_link_details_unchecked(r) ==
    CASE r \in {"Ok", "NotFound"} -> "details"
      [] OTHER -> "raise"

\* VpcLinkResource._get_vpc_link_details on the response r of get_vpc_link:
\* the details, None for NotFoundException, any other error raised again
_get_vpc_link_details(r) ==
    CASE r = "Ok" -> "details"
      [] r = "NotFound" -> "None"
      [] OTHER -> "raise"

\* VpcLinkResource.create up to create_vpc_link
VpcLinkResource_create ==
    /\ pc = "VpcLink.Create"
    /\ IF ~validate_resource_properties
       THEN Raise("ValueError") /\ UNCHANGED <<obs, remote, attempt>>
       ELSE IF check_timeout
       THEN /\ Raise("ValueError")      \* TimeoutError wrapped by except Exception
            /\ obs' = [obs EXCEPT !.budgetFound = TRUE]
            /\ UNCHANGED <<remote, attempt>>
       ELSE \E r \in {"Ok", "Fatal", "Exc"} :
              /\ obs' = Count("writes")
              /\ IF r = "Ok"
                 THEN /\ pc' = "VpcLink.wait_available" /\ exc' = exc
                      /\ remote' = [remote EXCEPT !.vpcName = event.Name]
                      /\ attempt' = 0
                 ELSE Raise("ValueError") /\ UNCHANGED <<remote, attempt>>
    /\ UNCHANGED <<funcs, event, budget, alarm, ret, resp, puts>>

\* VpcLinkResource.update up to the comparison of the name
VpcLinkResource_update ==
    /\ pc = "VpcLink.Update"
    /\ IF check_timeout
       THEN /\ Raise("ValueError")
            /\ obs' = [obs EXCEPT !.budgetFound = TRUE]
            /\ attempt' = attempt
       ELSE \E r \in {"Ok", "NotFound", "Fatal", "Exc"} :
              /\ obs' = [obs EXCEPT !.reads = @ + 1, !.firstLookup = r]
              /\ CASE _get_vpc_link_details(r) = "details" ->
                        /\ pc' = IF event.Name # remote.vpcName
                                 THEN "VpcLink.update_vpc_link"
                                 ELSE "VpcLink.wait_available"
                        /\ exc' = exc /\ attempt' = 0
                   [] _get_vpc_link_details(r) = "None" ->
                        pc' = "VpcLink.Create" /\ exc' = exc /\ attempt' = attempt
                   [] OTHER -> Raise("ValueError") /\ attempt' = attempt
    /\ UNCHANGED <<funcs, event, budget, alarm, ret, resp, puts, remote>>

\* VpcLinkResource.update: update_vpc_link when the name differs
VpcLinkResource_update_vpc_link ==
    /\ pc = "VpcLink.update_vpc_link"
    /\ obs' = Count("writes")
    /\ \E r \in {"Ok", "NotFound", "Fatal", "Exc"} :
         CASE r = "Ok" ->
                /\ pc' = "VpcLink.wait_available" /\ exc' = exc
                /\ remote' = [remote EXCEPT !.vpcName = event.Name]
           [] r = "NotFound" -> pc' = "VpcLink.Create" /\ exc' = exc /\ remote' = remote
           [] OTHER -> Raise("ValueError") /\ remote' = remote
    /\ UNCHANGED <<funcs, event, budget, alarm, attempt, ret, resp, puts>>

\* VpcLinkResource._wait_for_vpc_link_available: one pass of the loop, or its end
_wait_for_vpc_link_available ==
    /\ pc = "VpcLink.wait_available"
    /\ \/ \* max_wait_time is over: one more read, then TimeoutError, wrapped by the caller
          /\ attempt >= 1
          /\ obs' = Count("reads")
          /\ Raise("ValueError")
          /\ UNCHANGED <<attempt, ret>>
       \/ /\ check_timeout
          /\ obs' = [obs EXCEPT !.budgetFound = TRUE]
          /\ Raise("ValueError")
          /\ UNCHANGED <<attempt, ret>>
       \/ /\ ~check_timeout
          /\ \E st \in {"AVAILABLE", "FAILED", "PENDING", "NotFound", "Fatal", "Exc"} :
               CASE st = "AVAILABLE" ->
                      /\ obs' = [obs EXCEPT !.reads = @ + 1, !.polled = st]
                      /\ Return("AVAILABLE", FALSE) /\ attempt' = attempt
                 [] st \in {"FAILED", "NotFound", "Exc"} ->
                      /\ obs' = [obs EXCEPT !.reads = @ + 1, !.polled = st]
                      /\ Raise("ValueError") /\ UNCHANGED <<attempt, ret>>
                 [] OTHER ->
                      /\ attempt < MaxPoll
                      /\ obs' = [obs EXCEPT !.reads = @ + 1, !.sleeps = @ + 1, !.polled = st]
                      /\ attempt' = attempt + 1
                      /\ UNCHANGED <<pc, exc, ret>>
    /\ UNCHANGED <<funcs, event, budget, alarm, resp, puts, remote>>

\* VpcLinkResource.delete up to delete_vpc_link
VpcLinkResource_delete ==
    /\ pc = "VpcLink.Delete"
    /\ IF check_timeout
       THEN /\ Return("DeleteFailed", TRUE)
            /\ obs' = [obs EXCEPT !.budgetFound = TRUE]
       ELSE \E r \in {"Ok", "NotFound", "Fatal", "Exc"} :
              /\ CASE _get_vpc_link_details(r) = "details" ->
                        /\ pc' = "VpcLink.delete_vpc_link" /\ UNCHANGED <<exc, ret>>
                        /\ obs' = [obs EXCEPT !.reads = @ + 1, !.firstLookup = r]
                   [] _get_vpc_link_details(r) = "None" ->
                        /\ Return("none", FALSE)
                        /\ obs' = [obs EXCEPT !.reads = @ + 1, !.firstLookup = r,
                                              !.del = "absent"]
                   [] OTHER ->
                        /\ Return("DeleteFailed", TRUE)
                        /\ obs' = [obs EXCEPT !.reads = @ + 1, !.firstLookup = r,
                                              !.del = "failed"]
    /\ UNCHANGED <<funcs, event, budget, alarm, attempt, resp, puts, remote>>

\* VpcLinkResource.delete: delete_vpc_link
VpcLinkResource_delete_vpc_link ==
    /\ pc = "VpcLink.delete_vpc_link"
    /\ \E r \in {"Ok", "NotFound", "Fatal", "Exc"} :
         CASE r = "Ok" ->
                /\ pc' = "VpcLink.wait_deleted" /\ UNCHANGED <<exc, ret>>
                /\ attempt' = 0
                /\ obs' = [obs EXCEPT !.deletes = @ + 1, !.del = "accepted",
                                      !.lastDelete = r]
           [] r = "NotFound" ->
                /\ Return("none", FALSE) /\ attempt' = attempt
                /\ obs' = [obs EXCEPT !.deletes = @ + 1, !.del = "absent",
                                      !.lastDelete = r]
           [] OTHER ->
                /\ Return("DeleteFailed", TRUE) /\ attempt' = attempt
                /\ obs' = [obs EXCEPT !.deletes = @ + 1, !.del = "failed",
                                      !.lastDelete = r]
    /\ UNCHANGED <<funcs, event, budget, alarm, resp, puts, remote>>

\* VpcLinkResource._wait_for_vpc_link_deleted: one pass of the loop, or its end
_wait_for_vpc_link_deleted ==
    /\ pc = "VpcLink.wait_deleted"
    /\ \/ \* max_wait_time is over: plain return
          /\ attempt >= 1
          /\ Return("none", FALSE)
          /\ obs' = [obs EXCEPT !.del = "timedout"]
          /\ attempt' = attempt
       \/ /\ check_timeout
          /\ Return("DeleteFailed", TRUE)
          /\ obs' = [obs EXCEPT !.budgetFound = TRUE, !.del = "timedout"]
          /\ attempt' = attempt
       \/ /\ ~check_timeout
          /\ \E st \in {"DELETING", "NotFound", "Fatal", "Exc"} :
               CASE st = "NotFound" ->
                      /\ Return("none", FALSE) /\ attempt' = attempt
                      /\ obs' = [obs EXCEPT !.reads = @ + 1, !.del = "absent", !.polled = st]
                 [] st = "Exc" ->
                      /\ Return("DeleteFailed", TRUE) /\ attempt' = attempt
                      /\ obs' = [obs EXCEPT !.reads = @ + 1, !.del = "failed", !.polled = st]
                 [] OTHER ->
                      /\ attempt < MaxPoll
                      /\ obs' = [obs EXCEPT !.reads = @ + 1, !.sleeps = @ + 1, !.polled = st]
                      /\ attempt' = attempt + 1
                      /\ UNCHANGED <<pc, exc, ret>>
    /\ UNCHANGED <<funcs, event, budget, alarm, resp, puts, remote>>

-----------------------------------------------------------------------------
(* AutoScalingResource *)

\* where the steps shared by delete and _cleanup_on_failure return to
InCleanup == event.RequestType # "Delete"

\* AutoScalingResource.create: validation and timeout check
AutoScalingResource_create ==
    /\ pc = "AutoScaling.Create"
    /\ IF ~validate_resource_properties
       THEN Raise("ValueError") /\ obs' = obs
       ELSE IF check_timeout
       THEN /\ pc' = "AutoScaling.cleanup" /\ exc' = exc
            /\ obs' = [obs EXCEPT !.budgetFound = TRUE]
       ELSE pc' = "AutoScaling.create_launch_template" /\ exc' = exc /\ obs' = obs
    /\ UNCHANGED <<funcs, event, budget, alarm, attempt, ret, resp, puts, remote>>

\* AutoScalingResource._create_launch_template: an existing template is looked up and reused
_create_launch_template ==
    /\ pc = "AutoScaling.create_launch_template"
    /\ \E r \in {"Ok", "AlreadyExists", "Fatal", "Exc"} :
         CASE r = "Ok" ->
                /\ obs' = Step(Count("writes"), "create_launch_template", TRUE)
                /\ pc' = "AutoScaling.create_auto_scaling_group"
           [] r = "AlreadyExists" ->
                \E found \in BOOLEAN :
                  /\ obs' = Step(Step([obs EXCEPT !.writes = @ + 1, !.reads = @ + 1],
                                       "create_launch_template", FALSE),
                                  "describe_launch_templates", found)
                  /\ pc' = IF found THEN "AutoScaling.create_auto_scaling_group"
                           ELSE "AutoScaling.cleanup"
           [] OTHER ->
                /\ obs' = Step(Count("writes"), "create_launch_template", FALSE)
                /\ pc' = "AutoScaling.cleanup"
    /\ UNCHANGED <<funcs, event, exc, budget, alarm, attempt, ret, resp, puts, remote>>

\* AutoScalingResource._create_auto_scaling_group: create_auto_scaling_group
_create_auto_scaling_group ==
    /\ pc = "AutoScaling.create_auto_scaling_group"
    /\ \E r \in {"Ok", "Fatal", "Exc"} :
         /\ obs' = Step(Count("writes"), "create_auto_scaling_group", r = "Ok")
         /\ pc' = IF r = "Ok" THEN "AutoScaling.wait_ready" ELSE "AutoScaling.cleanup"
    /\ attempt' = 0
    /\ UNCHANGED <<funcs, event, exc, budget, alarm, ret, resp, puts, remote>>

\* AutoScalingResource._wait_for_auto_scaling_group_ready: one pass of the loop, or its end
_wait_for_auto_scaling_group_ready ==
    /\ pc = "AutoScaling.wait_ready"
    /\ \/ /\ attempt >= 1           \* max_wait_time is over: TimeoutError
          /\ pc' = "AutoScaling.cleanup"
          /\ UNCHANGED <<obs, attempt>>
       \/ /\ check_timeout
          /\ obs' = [obs EXCEPT !.budgetFound = TRUE]
          /\ pc' = "AutoScaling.cleanup"
          /\ attempt' = attempt
       \/ /\ ~check_timeout
          /\ \E r \in {"Ok", "NotFound", "Fatal", "Exc"} :
               IF r = "Ok"
               THEN /\ obs' = Count("reads")
                    /\ pc' = "AutoScaling.create_extras"
                    /\ attempt' = attempt
               ELSE /\ attempt < MaxPoll
                    /\ obs' = [obs EXCEPT !.reads = @ + 1, !.sleeps = @ + 1]
                    /\ attempt' = attempt + 1
                    /\ pc' = pc
    /\ UNCHANGED <<funcs, event, exc, budget, alarm, ret, resp, puts, remote>>

\* _create_scaling_policies, then _register_target_groups: each is optional, and the
\* failure of either is logged and swallowed
_create_scaling_policies ==
    /\ pc = "AutoScaling.create_extras"
    /\ \E policies \in {"none", "Ok", "Fatal"}, groups \in {"none", "Ok", "Fatal"} :
         LET o1 == IF policies = "none" THEN obs
                   ELSE Step(Count("writes"), "put_scaling_policy", policies = "Ok")
             o2 == IF groups = "none" THEN o1
                   ELSE Step([o1 EXCEPT !.writes = @ + 1],
                             "attach_load_balancer_target_groups", groups = "Ok")
         IN  obs' = o2
    /\ Return("none", FALSE)
    /\ UNCHANGED <<funcs, event, budget, alarm, attempt, resp, puts, remote>>

\* AutoScalingResource._cleanup_on_failure, then the ValueError of create
_cleanup_on_failure ==
    /\ pc = "AutoScaling.cleanup"
    /\ \E r \in {"Ok", "NotFound", "Fatal", "Exc"} :
         /\ obs' = [obs EXCEPT !.reads = @ + 1,
                               !.cleanup = @ \cup {"describe_auto_scaling_groups"}]
         /\ pc' = IF r = "Ok" THEN "AutoScaling.scale_down"
                  ELSE "AutoScaling.delete_launch_template"
    /\ UNCHANGED <<funcs, event, exc, budget, alarm, attempt, ret, resp, puts, remote>>

\* AutoScalingResource.update: timeout check and lookup
AutoScalingResource_update ==
    /\ pc = "AutoScaling.Update"
    /\ IF check_timeout
       THEN /\ Raise("ValueError")
            /\ obs' = [obs EXCEPT !.budgetFound = TRUE]
       ELSE \E r \in {"Ok", "NotFound", "Fatal", "Exc"} :
              /\ obs' = [obs EXCEPT !.reads = @ + 1, !.firstLookup = r]
              /\ CASE r = "Ok" -> pc' = "AutoScaling.update_auto_scaling_group" /\ exc' = exc
                   [] r = "NotFound" -> pc' = "AutoScaling.Create" /\ exc' = exc
                   [] OTHER -> Raise("ValueError")
    /\ UNCHANGED <<funcs, event, budget, alarm, attempt, ret, resp, puts, remote>>

\* _update_auto_scaling_group, _update_launch_template, _update_scaling_policies,
\* _update_target_groups: the group is written whatever its current state
_update_auto_scaling_group ==
    /\ pc = "AutoScaling.update_auto_scaling_group"
    /\ \E r \in {"Ok", "Fatal", "Exc"} :
         IF r = "Ok"
         THEN /\ \E n \in 0..1 : obs' = [obs EXCEPT !.writes = @ + 1 + n, !.reads = @ + 1]
              /\ Return("none", FALSE)
         ELSE /\ obs' = Count("writes")
              /\ Raise("ValueError") /\ ret' = ret
    /\ UNCHANGED <<funcs, event, budget, alarm, attempt, resp, puts, remote>>

\* AutoScalingResource.delete: timeout check and lookup
AutoScalingResource_delete ==
    /\ pc = "AutoScaling.Delete"
    /\ IF check_timeout
       THEN /\ Return("DeleteFailed", TRUE)
            /\ obs' = [obs EXCEPT !.budgetFound = TRUE]
       ELSE \E r \in {"Ok", "NotFound", "Fatal", "Exc"} :
              CASE r = "Ok" ->
                     /\ pc' = "AutoScaling.delete_scaling_policies" /\ UNCHANGED <<exc, ret>>
                     /\ obs' = [obs EXCEPT !.reads = @ + 1, !.firstLookup = r]
                [] r = "NotFound" ->
                     /\ Return("none", FALSE)
                     /\ obs' = [obs EXCEPT !.reads = @ + 1, !.firstLookup = r,
                                           !.del = "absent"]
                [] OTHER ->
                     /\ Return("DeleteFailed", TRUE)
                     /\ obs' = [obs EXCEPT !.reads = @ + 1, !.firstLookup = r,
                                           !.del = "failed"]
    /\ UNCHANGED <<funcs, event, budget, alarm, attempt, resp, puts, remote>>

\* AutoScalingResource._delete_scaling_policies: failures swallowed
_delete_scaling_policies ==
    /\ pc = "AutoScaling.delete_scaling_policies"
    /\ \E n \in 0..1 : obs' = [obs EXCEPT !.reads = @ + 1, !.deletes = @ + n]
    /\ pc' = "AutoScaling.scale_down"
    /\ UNCHANGED <<funcs, event, exc, budget, alarm, attempt, ret, resp, puts, remote>>

\* AutoScalingResource._scale_down_auto_scaling_group: the write to zero capacity
_scale_down_auto_scaling_group ==
    /\ pc = "AutoScaling.scale_down"
    /\ obs' = Count("writes")
    /\ \E r \in {"Ok", "Fatal", "Exc"} :
         pc' = IF r = "Ok" THEN "AutoScaling.wait_terminated"
               ELSE "AutoScaling.delete_auto_scaling_group"
    /\ attempt' = 0
    /\ UNCHANGED <<funcs, event, exc, budget, alarm, ret, resp, puts, remote>>

\* _scale_down_auto_scaling_group: one pass of the wait loop, or its end;
\* every exception, the TimeoutError of the budget included, is logged and dropped
_scale_down_wait ==
    /\ pc = "AutoScaling.wait_terminated"
    /\ \/ /\ attempt >= 1           \* max_wait_time is over: a warning
          /\ pc' = "AutoScaling.delete_auto_scaling_group"
          /\ UNCHANGED <<obs, attempt>>
       \/ /\ check_timeout
          /\ obs' = [obs EXCEPT !.budgetFound = TRUE]
          /\ pc' = "AutoScaling.delete_auto_scaling_group"
          /\ attempt' = attempt
       \/ /\ ~check_timeout
          /\ \E r \in {"Empty", "Busy", "Fatal"} :
               IF r = "Busy"
               THEN /\ attempt < MaxPoll
                    /\ obs' = [obs EXCEPT !.reads = @ + 1, !.sleeps = @ + 1, !.polled = r]
                    /\ attempt' = attempt + 1
                    /\ pc' = pc
               ELSE /\ obs' = [obs EXCEPT !.reads = @ + 1, !.polled = r]
                    /\ pc' = "AutoScaling.delete_auto_scaling_group"
                    /\ attempt' = attempt
    /\ UNCHANGED <<funcs, event, exc, budget, alarm, ret, resp, puts, remote>>

\* AutoScalingResource._delete_auto_scaling_group: failures swallowed
_delete_auto_scaling_group ==
    /\ pc = "AutoScaling.delete_auto_scaling_group"
    /\ \E r \in {"Ok", "Fatal", "Exc"} :
         obs' = [obs EXCEPT !.deletes = @ + 1,
                            !.cleanup = IF InCleanup THEN @ \cup {"delete_auto_scaling_group"}
                                        ELSE @,
                            !.lastDelete = IF InCleanup THEN @ ELSE r,
                            !.del = IF InCleanup THEN @
                                    ELSE IF r = "Ok" THEN "accepted" ELSE "failed"]
    /\ pc' = "AutoScaling.delete_launch_template"
    /\ UNCHANGED <<funcs, event, exc, budget, alarm, attempt, ret, resp, puts, remote>>

\* AutoScalingResource._delete_launch_template: failures swallowed; then delete
\* returns empty data, and create raises its ValueError after the cleanup
_delete_launch_template ==
    /\ pc = "AutoScaling.delete_launch_template"
    /\ \E n \in 0..1 :
         /\ InCleanup => n = 1
         /\ obs' = [obs EXCEPT !.deletes = @ + n,
                               !.cleanup = IF InCleanup THEN @ \cup {"delete_launch_template"}
                                           ELSE @]
    /\ IF InCleanup
       THEN Raise("ValueError") /\ ret' = ret
       ELSE Return("none", FALSE)
    /\ UNCHANGED <<funcs, event, budget, alarm, attempt, resp, puts, remote>>

-----------------------------------------------------------------------------
(* WAFResource.  Conflict is WAFOptimisticLockException: the LockToken read *)
(* before the write is stale.                                               *)

\* WAFResource.create: validation and timeout check
WAFResource_create ==
    /\ pc = "WAF.Create"
    /\ IF ~validate_resource_properties
       THEN Raise("ValueError") /\ obs' = obs
       ELSE IF check_timeout
       THEN Raise("ValueError") /\ obs' = [obs EXCEPT !.budgetFound = TRUE]
       ELSE /\ pc' = IF event.cidrs THEN "WAF.create_ipset" ELSE "WAF.create_webacl"
            /\ exc' = exc /\ obs' = obs
    /\ UNCHANGED <<funcs, event, budget, alarm, attempt, ret, resp, puts, remote>>

\* _create_ipset if its caller went on whatever create_ip_set answered
_create_ipset_unchecked ==
    /\ pc \in {"WAF.create_ipset", "WAF.update.create_ipset"}
    /\ \E r \in {"Ok", "Fatal", "Exc"} :
         /\ obs' = Step(Count("writes"), "create_ip_set", r = "Ok")
         /\ pc' = IF pc = "WAF.create_ipset" THEN "WAF.create_webacl"
                  ELSE "WAF.update_webacl_rules"
         /\ exc' = exc
    /\ UNCHANGED <<funcs, event, budget, alarm, attempt, ret, resp, puts, remote>>

\* default_action of _create_webacl and _update_webacl_rules if it did not look at ipset_arn
default_action_block(ipset_arn) == "Block"

\* default_action of _create_webacl and _update_webacl_rules: ipset_arn is set or None
default_action(ipset_arn) == IF ipset_arn THEN "Block" ELSE "Allow"

\* rules of _create_webacl and _update_webacl_rules
webacl_rules(ipset_arn) == IF ipset_arn THEN <<"IPAllowlistRule">> ELSE <<>>

\* the WebACL that create_web_acl and update_web_acl are called with
web_acl(ipset_arn) ==
    [DefaultAction |-> default_action(ipset_arn), Rules |-> webacl_rules(ipset_arn)]

\* WAFResource._create_ipset, called by create and by update
_create_ipset ==
    /\ pc \in {"WAF.create_ipset", "WAF.update.create_ipset"}
    /\ \E r \in {"Ok", "Fatal", "Exc"} :
         /\ obs' = Step(Count("writes"), "create_ip_set", r = "Ok")
         /\ IF r = "Ok"
            THEN /\ pc' = IF pc = "WAF.create_ipset" THEN "WAF.create_webacl"
                          ELSE "WAF.update_webacl_rules"
                 /\ exc' = exc
            ELSE Raise("ValueError")
    /\ UNCHANGED <<funcs, event, budget, alarm, attempt, ret, resp, puts, remote>>

\* WAFResource._create_webacl and the optional _associate_webacl_with_api_gateway
_create_webacl ==
    /\ pc = "WAF.create_webacl"
    /\ \E r \in {"Ok", "Fatal", "Exc"}, assoc \in {"none", "Ok", "Fatal"} :
         LET o1 == Step(Count("writes"), "create_web_acl", r = "Ok")
             o2 == Step([o1 EXCEPT !.writes = @ + 1], "associate_web_acl", assoc = "Ok")
         IN  /\ IF r = "Ok" /\ assoc # "Fatal"
                THEN /\ obs' = IF assoc = "none" THEN o1 ELSE o2
                     /\ Return("none", FALSE)
                ELSE /\ obs' = IF r = "Ok" THEN o2 ELSE o1
                     /\ Raise("ValueError") /\ ret' = ret
             /\ remote' = IF r = "Ok" THEN [remote EXCEPT !.webacl = web_acl(event.cidrs)]
                           ELSE remote
    /\ UNCHANGED <<funcs, event, budget, alarm, attempt, resp, puts>>

\* WAFResource.update: timeout check and lookup
WAFResource_update ==
    /\ pc = "WAF.Update"
    /\ IF check_timeout
       THEN Raise("ValueError") /\ obs' = [obs EXCEPT !.budgetFound = TRUE]
       ELSE \E r \in {"Ok", "NotFound", "Fatal", "Exc"} :
              /\ obs' = [obs EXCEPT !.reads = @ + 1, !.firstLookup = r]
              /\ CASE r = "Ok" ->
                        /\ pc' = IF event.cidrs THEN "WAF.find_ipset"
                                 ELSE "WAF.update_webacl_rules"
                        /\ exc' = exc
                   [] r = "NotFound" -> pc' = "WAF.Create" /\ exc' = exc
                   [] OTHER -> Raise("ValueError")
    /\ UNCHANGED <<funcs, event, budget, alarm, attempt, ret, resp, puts, remote>>

\* WAFResource._find_ipset_by_name: a ClientError counts as not found
_find_ipset_by_name ==
    /\ pc = "WAF.find_ipset"
    /\ obs' = Count("reads")
    /\ \E r \in {"Ok", "NotFound", "Fatal", "Exc"} :
         CASE r = "Ok" -> pc' = "WAF.update_ipset" /\ exc' = exc
           [] r = "Exc" -> Raise("ValueError")
           [] OTHER -> pc' = "WAF.update.create_ipset" /\ exc' = exc
    /\ UNCHANGED <<funcs, event, budget, alarm, attempt, ret, resp, puts, remote>>

\* WAFResource._update_ipset: one get_ip_set, one update_ip_set with its LockToken
_update_ipset ==
    /\ pc = "WAF.update_ipset"
    /\ \E rd \in {"Ok", "Fatal"}, wr \in {"Ok", "Conflict", "Fatal", "Exc"} :
         IF rd # "Ok"
         THEN /\ obs' = Count("reads")
              /\ Raise("ValueError")
         ELSE /\ obs' = [obs EXCEPT !.reads = @ + 1, !.writes = @ + 1,
                                    !.conflicts = @ + (IF wr = "Conflict" THEN 1 ELSE 0)]
              /\ IF wr = "Ok"
                 THEN pc' = "WAF.update_webacl_rules" /\ exc' = exc
                 ELSE Raise("ValueError")
    /\ UNCHANGED <<funcs, event, budget, alarm, attempt, ret, resp, puts, remote>>

\* WAFResource._update_webacl_rules: one get_web_acl, one update_web_acl, then the
\* optional association; the rules are written whatever they are now
_update_webacl_rules ==
    /\ pc = "WAF.update_webacl_rules"
    /\ \E rd \in {"Ok", "Fatal"}, wr \in {"Ok", "Conflict", "Fatal", "Exc"},
          assoc \in {"none", "Ok", "Fatal"} :
         IF rd # "Ok"
         THEN /\ obs' = Count("reads")
              /\ Raise("ValueError") /\ UNCHANGED <<ret, remote>>
         ELSE IF wr # "Ok"
         THEN /\ obs' = [obs EXCEPT !.reads = @ + 1, !.writes = @ + 1,
                                    !.conflicts = @ + (IF wr = "Conflict" THEN 1 ELSE 0)]
              /\ Raise("ValueError") /\ UNCHANGED <<ret, remote>>
         ELSE /\ obs' = [obs EXCEPT !.reads = @ + 1,
                                    !.writes = @ + (IF assoc = "none" THEN 1 ELSE 2)]
              /\ remote' = [remote EXCEPT !.webacl = web_acl(event.cidrs)]
              /\ IF assoc = "Fatal"
                 THEN Raise("ValueError") /\ ret' = ret
                 ELSE Return("none", FALSE)
    /\ UNCHANGED <<funcs, event, budget, alarm, attempt, resp, puts>>

\* WAFResource.delete: timeout check and lookup
WAFResource_delete ==
    /\ pc = "WAF.Delete"
    /\ IF check_timeout
       THEN /\ Return("DeleteFailed", TRUE)
            /\ obs' = [obs EXCEPT !.budgetFound = TRUE]
       ELSE \E r \in {"Ok", "NotFound", "Fatal", "Exc"} :
              CASE r = "Ok" ->
                     /\ pc' = "WAF.delete_webacl" /\ UNCHANGED <<exc, ret>>
                     /\ obs' = [obs EXCEPT !.reads = @ + 1, !.firstLookup = r]
                [] r = "NotFound" ->
                     /\ Return("none", FALSE)
                     /\ obs' = [obs EXCEPT !.reads = @ + 1, !.firstLookup = r,
                                           !.del = "absent"]
                [] OTHER ->
                     /\ Return("DeleteFailed", TRUE)
                     /\ obs' = [obs EXCEPT !.reads = @ + 1, !.firstLookup = r,
                                           !.del = "failed"]
    /\ UNCHANGED <<funcs, event, budget, alarm, attempt, resp, puts, remote>>

\* WAFResource._delete_webacl: get_web_acl for the LockToken, then delete_web_acl
_delete_webacl ==
    /\ pc = "WAF.delete_webacl"
    /\ \E rd \in {"Ok", "NotFound", "Fatal"}, wr \in {"Ok", "NotFound", "Conflict", "Fatal", "Exc"} :
         /\ CASE rd = "NotFound" ->
                   /\ obs' = [obs EXCEPT !.reads = @ + 1, !.del = "absent"]
                   /\ pc' = "WAF.delete_ipset" /\ UNCHANGED <<exc, ret>>
              [] rd = "Fatal" ->
                   /\ obs' = [obs EXCEPT !.reads = @ + 1, !.del = "failed"]
                   /\ Return("DeleteFailed", TRUE)
              [] OTHER ->
                   IF wr \in {"Ok", "NotFound"}
                   THEN /\ obs' = [obs EXCEPT !.reads = @ + 1, !.deletes = @ + 1,
                                              !.lastDelete = wr,
                                              !.del = IF wr = "Ok" THEN "accepted" ELSE "absent"]
                        /\ pc' = "WAF.delete_ipset" /\ UNCHANGED <<exc, ret>>
                   ELSE /\ obs' = [obs EXCEPT !.reads = @ + 1, !.deletes = @ + 1,
                                              !.lastDelete = wr,
                                              !.del = "failed",
                                              !.conflicts = @ + (IF wr = "Conflict" THEN 1 ELSE 0)]
                        /\ Return("DeleteFailed", TRUE)
         /\ remote' = IF rd = "Ok" /\ wr = "Ok" THEN [remote EXCEPT !.webacl = NoWebACL]
                       ELSE remote
    /\ UNCHANGED <<funcs, event, budget, alarm, attempt, resp, puts>>

\* WAFResource.delete: _find_ipset_by_name and _delete_ipset of the companion IPSet
_delete_ipset ==
    /\ pc = "WAF.delete_ipset"
    /\ \E r \in {"none", "Ok", "NotFound", "Fatal"} :
         /\ obs' = [obs EXCEPT !.reads = @ + 1,
                               !.deletes = @ + (IF r = "none" THEN 0 ELSE 1)]
         /\ IF r = "Fatal"
            THEN Return("DeleteFailed", TRUE)
            ELSE Return("none", FALSE)
    /\ UNCHANGED <<funcs, event, budget, alarm, attempt, resp, puts, remote>>

-----------------------------------------------------------------------------
(* CognitoClientSecretResource *)

\* CognitoClientSecretResource.create; update is create
CognitoClientSecretResource_create ==
    /\ pc \in {"CognitoClientSecret.Create", "CognitoClientSecret.Update"}
    /\ IF ~validate_resource_properties
       THEN Raise("ValueError") /\ obs' = obs
       ELSE IF check_timeout
       THEN Raise("ValueError") /\ obs' = [obs EXCEPT !.budgetFound = TRUE]
       ELSE \E r \in {"Ok", "NoSecret", "NotFound", "Fatal", "Exc"} :
              /\ obs' = Count("reads")
              /\ IF r = "Ok"
                 THEN pc' = "CognitoClientSecret.update_secret" /\ exc' = exc
                 ELSE Raise("ValueError")
    /\ UNCHANGED <<funcs, event, budget, alarm, attempt, ret, resp, puts, remote>>

\* CognitoClientSecretResource.create: second timeout check, update_secret, and
\* create_secret when the secret does not exist
Cognito_update_secret ==
    /\ pc = "CognitoClientSecret.update_secret"
    /\ IF check_timeout
       THEN /\ Raise("ValueError") /\ ret' = ret
            /\ obs' = [obs EXCEPT !.budgetFound = TRUE]
       ELSE \E r \in {"Ok", "NotFound", "Fatal", "Exc"}, cr \in {"Ok", "Fatal"} :
              CASE r = "Ok" ->
                     obs' = Count("writes") /\ Return("SecretUpdated", FALSE)
                [] r = "NotFound" ->
                     /\ obs' = [obs EXCEPT !.writes = @ + 2]
                     /\ IF cr = "Ok"
                        THEN Return("SecretUpdated", FALSE)
                        ELSE Raise("ValueError") /\ ret' = ret
                [] OTHER ->
                     obs' = Count("writes") /\ Raise("ValueError") /\ ret' = ret
    /\ UNCHANGED <<funcs, event, budget, alarm, attempt, resp, puts, remote>>

\* CognitoClientSecretResource.delete: the secret is marked deleted, not deleted;
\* a ClientError of the read or of the marking write is logged and dropped
CognitoClientSecretResource_delete ==
    /\ pc = "CognitoClientSecret.Delete"
    /\ IF check_timeout
       THEN /\ Return("DeleteFailed", TRUE)
            /\ obs' = [obs EXCEPT !.budgetFound = TRUE]
       ELSE \E rd \in {"Ok", "NotFound", "Fatal", "Exc"}, wr \in {"Ok", "Fatal", "Exc"} :
              CASE rd = "NotFound" ->
                     /\ obs' = [obs EXCEPT !.reads = @ + 1, !.firstLookup = rd,
                                           !.del = "absent"]
                     /\ Return("Deleted", FALSE)
                [] rd = "Fatal" ->
                     /\ obs' = [obs EXCEPT !.reads = @ + 1, !.firstLookup = rd,
                                           !.del = "failed"]
                     /\ Return("Deleted", FALSE)
                [] rd = "Exc" ->
                     /\ obs' = [obs EXCEPT !.reads = @ + 1, !.firstLookup = rd,
                                           !.del = "failed"]
                     /\ Return("DeleteFailed", TRUE)
                [] OTHER ->
                     /\ obs' = [obs EXCEPT !.reads = @ + 1, !.firstLookup = rd,
                                           !.writes = @ + 1,
                                           !.del = IF wr = "Ok" THEN "accepted" ELSE "failed"]
                     /\ IF wr = "Exc"
                        THEN Return("DeleteFailed", TRUE)
                        ELSE Return("Deleted", FALSE)
    /\ UNCHANGED <<funcs, event, budget, alarm, attempt, resp, puts, remote>>

-----------------------------------------------------------------------------
(* handle_launch_template_resource is part of handle_resource: no remote call *)

-----------------------------------------------------------------------------
(* cloudfront_manager.lambda_handler.  The SIGALRM of TimeoutHandler raises  *)
(* TimeoutError inside whatever blocking call is running while the alarm is *)
(* armed: every such call has the extra response Alarm.                     *)

\* except clauses without the catch-all
CF_except_clauses_narrow == <<"TimeoutError", "ValueError">>

CF_except_clauses == <<"TimeoutError", "Exception">>

Alarmed == IF alarm = "armed" THEN {"Alarm"} ELSE {}

\* the exception class a failed remote call raises
Thrown(r) ==
    CASE r = "Alarm" -> "TimeoutError"
      [] r \in {"Exc", "Failed"} -> "RuntimeError"
      [] r = "KeyError" -> "KeyError"
      [] OTHER -> "ClientError"

\* the alarm after the with block is left, r being the response that ends it
Exit(r) == IF r = "Alarm" \/ alarm = "fired" THEN "spent" ELSE "off"

\* an exception leaves the with block: __exit__ cancels the alarm
CFRaise(e) == Raise(e) /\ alarm' = Exit("none")

\* a failed remote call raises out of the with block
CFThrow(r) == Raise(Thrown(r)) /\ alarm' = Exit(r)

\* delete_resource returns to lambda_handler (Delete) or to update_resource (Update)
AfterDelete(st) ==
    IF event.RequestType = "Delete"
    THEN Return(st, FALSE)
    ELSE pc' = "cf.create" /\ UNCHANGED <<exc, ret>>

\* lines 90-101: a required field of the event is missing
CF_missing_field ==
    \/ event.RequestType = "None"
    \/ ~Has("ResourceProperties")
    \/ event.ResourceType = "None"

\* lines 78-110: validation, then the alarm is armed
CF_validate ==
    /\ event.fn = "cf" /\ pc = "start"
    /\ IF CF_missing_field
       THEN Raise("ValueError") /\ alarm' = alarm
       ELSE pc' = "cf.with" /\ exc' = exc /\ alarm' = "armed"
    /\ UNCHANGED <<funcs, event, budget, attempt, ret, resp, puts, remote, obs>>

\* lines 111-131: dispatch on the verb inside the with block
CF_dispatch ==
    /\ pc = "cf.with"
    /\ IF event.RequestType \notin RequestTypes
       THEN CFRaise("ValueError") /\ UNCHANGED <<ret, obs>>
       ELSE IF event.ResourceType = "Test"
       THEN Return("TestSuccess", FALSE) /\ UNCHANGED <<alarm, obs>>
       ELSE /\ pc' = CASE event.RequestType = "Create" -> "cf.create"
                       [] event.RequestType = "Update" -> "cf.update"
                       [] OTHER -> "cf.delete"
            /\ UNCHANGED <<exc, ret, alarm, obs>>
    /\ UNCHANGED <<funcs, event, budget, attempt, resp, puts, remote>>

\* line 143: the handler returned; send_response runs inside the with block
CF_success ==
    /\ event.fn = "cf" /\ pc = "returned"
    /\ resp' \in Results(SUCCESS, ret.status, ret.err)
    /\ pc' = "cf.send"
    /\ obs' = Decided(obs, SUCCESS, ret.status, ret.err)
    /\ UNCHANGED <<funcs, event, exc, budget, alarm, attempt, ret, puts, remote>>

\* lines 145-188: the except clauses of lambda_handler
CF_except ==
    /\ event.fn = "cf" /\ pc = "except"
    /\ LET clause == Handles(CF_except_clauses, exc)
           isDelete == event.RequestType = "Delete"
       IN  CASE clause = 0 -> pc' = "escaped" /\ resp' = resp
             [] clause = 1 ->
                  IF isDelete
                  THEN Respond(SUCCESS, "TimeoutOnDelete", FALSE, "cf.send")
                  ELSE Respond(FAILED, "none", TRUE, "cf.send")
             [] OTHER ->
                  IF isDelete
                  THEN Respond(SUCCESS, "DeleteFailed", TRUE, "cf.send")
                  ELSE Respond(FAILED, "none", TRUE, "cf.send")
    /\ obs' = IF Handles(CF_except_clauses, exc) = 0
              THEN [obs EXCEPT !.raised = exc]
              ELSE Decided([obs EXCEPT !.raised = exc], resp'.status, resp'.data, resp'.err)
    /\ exc' = "none"
    /\ UNCHANGED <<funcs, event, budget, alarm, attempt, ret, puts, remote>>

-----------------------------------------------------------------------------
(* Response delivery of cloudfront_manager.py *)

InWith == alarm \in {"armed", "fired"}

\* send_response, lines 1421-1466: one PUT; a status other than 200, 201, 202 is
\* only logged; an exception leads to the minimal FAILED response
send_response ==
    /\ pc = "cf.send"
    /\ IF ~Has("ResponseURL")
       THEN /\ pc' = IF InWith THEN "cf.exit" ELSE "done"
            /\ UNCHANGED <<resp, puts, alarm>>
       ELSE \E outcome \in {"ok", "rejected", "error"} \cup Alarmed, arrived \in BOOLEAN :
              /\ arrived = TRUE \/ outcome = "Alarm"
              /\ Put("primary", IF outcome = "Alarm" /\ arrived THEN "ok" ELSE outcome)
              /\ alarm' = IF outcome = "Alarm" THEN "fired" ELSE alarm
              /\ IF outcome \in {"ok", "rejected"}
                 THEN pc' = (IF InWith THEN "cf.exit" ELSE "done") /\ resp' = resp
                 ELSE Respond(FAILED, "none", TRUE, "cf.send_minimal")
    /\ UNCHANGED <<funcs, event, exc, budget, attempt, ret, remote, obs>>

\* send_response, lines 1468-1492: the minimal FAILED response, failures swallowed
send_response_minimal ==
    /\ pc = "cf.send_minimal"
    /\ \E outcome \in {"ok", "rejected", "error"} \cup Alarmed, arrived \in BOOLEAN :
         /\ arrived = TRUE \/ outcome = "Alarm"
         /\ Put("minimal", IF outcome = "Alarm" /\ arrived THEN "ok" ELSE outcome)
         /\ alarm' = IF outcome = "Alarm" THEN "fired" ELSE alarm
    /\ pc' = IF InWith THEN "cf.exit" ELSE "done"
    /\ UNCHANGED <<funcs, event, exc, budget, attempt, ret, resp, remote, obs>>

\* the with block is left after send_response returned; the alarm can still fire
CF_exit ==
    /\ pc = "cf.exit"
    /\ \E r \in {"Ok"} \cup Alarmed :
         IF r = "Alarm"
         THEN Raise("TimeoutError") /\ alarm' = Exit(r)
         ELSE pc' = "done" /\ exc' = exc /\ alarm' = Exit(r)
    /\ UNCHANGED <<funcs, event, budget, attempt, ret, resp, puts, remote, obs>>

-----------------------------------------------------------------------------
(* create_resource and the create functions *)

\* create_resource: an unknown kind is a ValueError
create_resource ==
    /\ pc = "cf.create"
    /\ IF event.ResourceType \in CF_RESOURCE_TYPES
       THEN /\ pc' = "cf.create." \o event.ResourceType
            /\ obs' = [obs EXCEPT !.selected = event.ResourceType]
            /\ UNCHANGED <<exc, alarm>>
       ELSE CFRaise("ValueError") /\ obs' = obs
    /\ UNCHANGED <<funcs, event, budget, attempt, ret, resp, puts, remote>>

\* a create function that reads its properties and issues one create call
CreateOne(kind) ==
    /\ pc = "cf.create." \o kind
    /\ IF ~Has("RequiredProperty")
       THEN CFRaise("KeyError") /\ UNCHANGED <<ret, obs>>
       ELSE \E r \in {"Ok", "Fatal", "Exc"} \cup Alarmed :
              /\ obs' = Count("writes")
              /\ IF r = "Ok"
                 THEN Return("none", FALSE) /\ alarm' = alarm
                 ELSE /\ CFThrow(r) /\ ret' = ret
    /\ UNCHANGED <<funcs, event, budget, attempt, resp, puts, remote>>

create_public_key == CreateOne("PublicKey")

create_key_group == CreateOne("KeyGroup")

create_origin_access_control == CreateOne("OriginAccessControl")

create_response_policy == CreateOne("ResponsePolicy")

\* create_cloudfront_function and create_path_rewrite_function:
\* create_function, then publish_function with the ETag returned
create_cloudfront_function ==
    /\ pc \in {"cf.create.Function", "cf.create.PathRewriteFunction"}
    /\ IF ~Has("RequiredProperty")
       THEN CFRaise("KeyError") /\ UNCHANGED <<ret, obs>>
       ELSE \E r \in {"Ok", "Fatal", "Exc"} \cup Alarmed,
               pb \in {"Ok", "Fatal", "Exc"} \cup Alarmed :
              IF r = "Ok"
              THEN /\ obs' = Step(Step([obs EXCEPT !.writes = @ + 2], "create_function", TRUE),
                                  "publish_function", pb = "Ok")
                   /\ IF pb = "Ok"
                      THEN Return("none", FALSE) /\ alarm' = alarm
                      ELSE CFThrow(pb) /\ ret' = ret
              ELSE /\ pb = "Ok"
                   /\ obs' = Step(Count("writes"), "create_function", FALSE)
                   /\ CFThrow(r) /\ ret' = ret
    /\ UNCHANGED <<funcs, event, budget, attempt, resp, puts, remote>>

\* lookup_hosted_zone: list_hosted_zones; no matching zone is a ValueError
lookup_hosted_zone ==
    /\ pc = "cf.create.HostedZoneLookup"
    /\ IF ~Has("RequiredProperty")
       THEN CFRaise("KeyError") /\ UNCHANGED <<ret, obs>>
       ELSE \E r \in {"Ok", "NoZone", "Fatal", "Exc"} \cup Alarmed :
              /\ obs' = Count("reads")
              /\ CASE r = "Ok" -> Return("none", FALSE) /\ alarm' = alarm
                   [] r = "NoZone" -> CFRaise("ValueError") /\ ret' = ret
                   [] OTHER -> CFThrow(r) /\ ret' = ret
    /\ UNCHANGED <<funcs, event, budget, attempt, resp, puts, remote>>

-----------------------------------------------------------------------------
(* delete_resource and the retry-delete loops.  Each pass of a loop reads   *)
(* the version token (ETag), then deletes with IfMatch.  The codes a loop   *)
(* retries are its conflicts: the object is in use, or the token is stale.  *)

\* max_retries defaults of the delete_*_with_retry functions
response_policy_max_retries == 10
function_max_retries == 10
key_group_max_retries == 5
public_key_max_retries == 5
origin_access_control_max_retries == 5

\* max_retries of the retry-delete loop of a kind
MaxRetries(kind) ==
    CASE kind = "KeyGroup" -> key_group_max_retries
      [] kind = "PublicKey" -> public_key_max_retries
      [] kind = "OriginAccessControl" -> origin_access_control_max_retries
      [] kind = "ResponsePolicy" -> response_policy_max_retries
      [] OTHER -> function_max_retries

LoopKinds ==
    {"KeyGroup", "PublicKey", "OriginAccessControl", "ResponsePolicy", "Function",
     "PathRewriteFunction"}

ReadResponses == {"Ok", "NotFound", "Fatal", "Exc"}
DeleteResponses ==
    {"Ok", "NotFound", "InUse", "InvalidIfMatchVersion", "PreconditionFailed", "Fatal", "Exc"}

\* a loop that keeps the version token of an earlier pass when it has one
TokenRead_cached(r) ==
    IF obs.firstLookup = "Ok"
    THEN obs
    ELSE [obs EXCEPT !.tokenReads = @ + 1, !.reads = @ + 1, !.firstLookup = r]

\* a loop that reads the version token before its first pass only
TokenRead_once(r) ==
    [obs EXCEPT !.tokenReads = IF @ = 0 THEN 1 ELSE @,
                !.reads = IF obs.tokenReads = 0 THEN @ + 1 ELSE @,
                !.firstLookup = IF @ = "none" THEN r ELSE @]

\* the history after the token read of one pass
TokenRead(r) ==
    [obs EXCEPT !.tokenReads = @ + 1, !.reads = @ + 1,
                !.firstLookup = IF @ = "none" THEN r ELSE @]

\* delete_resource: no physical id, or a kind without remote object, deletes nothing;
\* whatever the delete routine does, delete_resource returns Status Deleted
delete_resource ==
    /\ pc = "cf.delete"
    /\ LET kind == event.ResourceType
       IN  IF ~Has("PhysicalResourceId")
              \/ kind \notin {"PublicKey", "KeyGroup", "OriginAccessControl", "Function",
                              "PathRewriteFunction", "ResponsePolicy", "DistributionUpdate"}
           THEN AfterDelete("Deleted") /\ obs' = obs
           ELSE /\ pc' = CASE kind = "PathRewriteFunction" -> "cf.delete.Function"
                           [] kind = "DistributionUpdate" -> "cf.remove_associations"
                           [] OTHER -> "cf.delete." \o kind
                /\ obs' = [obs EXCEPT !.selected = kind]
                /\ UNCHANGED <<exc, ret>>
    /\ attempt' = 0
    /\ UNCHANGED <<funcs, event, budget, alarm, resp, puts, remote>>

\* a retry loop that would retry every conflict, whatever the attempt
DeleteWithRetry_unbounded(kind, max_retries) ==
    /\ pc = "cf.delete." \o kind
    /\ \E r \in ReadResponses \cup Alarmed, d \in DeleteResponses \cup Alarmed,
          sl \in {"Ok"} \cup Alarmed :
         LET conflict == r = "Ok" /\ d \in {"InUse", "InvalidIfMatchVersion"}
             retry == conflict
             fired == r = "Alarm" \/ (r = "Ok" /\ d = "Alarm") \/ (retry /\ sl = "Alarm")
             fate == CASE fired -> "timedout"
                       [] r = "NotFound" \/ (r = "Ok" /\ d = "NotFound") -> "absent"
                       [] r = "Ok" /\ d = "Ok" -> "accepted"
                       [] conflict -> "gaveup"
                       [] OTHER -> "failed"
             called == IF r = "Ok"
                       THEN [TokenRead(r) EXCEPT !.deletes = @ + 1, !.lastDelete = d,
                                                 !.conflicts = @ + (IF conflict THEN 1 ELSE 0),
                                                 !.sleeps = @ + (IF retry THEN 1 ELSE 0)]
                       ELSE TokenRead(r)
         IN  /\ r # "Ok" => d = "Ok"
             /\ ~retry => sl = "Ok"
             /\ alarm' = IF fired THEN "fired" ELSE alarm
             /\ IF retry /\ sl = "Ok"
                THEN /\ obs' = called
                     /\ attempt' = attempt + 1
                     /\ UNCHANGED <<pc, exc, ret>>
                ELSE /\ obs' = [called EXCEPT
                                 !.del = fate,
                                 \* only ClientError is caught
                                 !.loopExit = IF fired \/ r = "Exc" \/ (r = "Ok" /\ d = "Exc")
                                              THEN "raised" ELSE "returned"]
                     /\ AfterDelete("Deleted")
                     /\ attempt' = attempt
    /\ UNCHANGED <<funcs, event, budget, resp, puts, remote>>

\* one pass of delete_key_group_with_retry, delete_public_key_with_retry or
\* delete_origin_access_control_with_retry: only ClientError is caught; in use and
\* InvalidIfMatchVersion are retried until the last attempt, any other code gives up
DeleteWithRetry(kind, max_retries) ==
    /\ pc = "cf.delete." \o kind
    /\ \E r \in ReadResponses \cup Alarmed, d \in DeleteResponses \cup Alarmed,
          sl \in {"Ok"} \cup Alarmed :
         LET conflict == r = "Ok" /\ d \in {"InUse", "InvalidIfMatchVersion"}
             retry == conflict /\ attempt < max_retries - 1
             fired == r = "Alarm" \/ (r = "Ok" /\ d = "Alarm") \/ (retry /\ sl = "Alarm")
             fate == CASE fired -> "timedout"
                       [] r = "NotFound" \/ (r = "Ok" /\ d = "NotFound") -> "absent"
                       [] r = "Ok" /\ d = "Ok" -> "accepted"
                       [] conflict -> "gaveup"
                       [] OTHER -> "failed"
             called == IF r = "Ok"
                       THEN [TokenRead(r) EXCEPT !.deletes = @ + 1, !.lastDelete = d,
                                                 !.conflicts = @ + (IF conflict THEN 1 ELSE 0),
                                                 !.sleeps = @ + (IF retry THEN 1 ELSE 0)]
                       ELSE TokenRead(r)
         IN  /\ r # "Ok" => d = "Ok"
             /\ ~retry => sl = "Ok"
             /\ alarm' = IF fired THEN "fired" ELSE alarm
             /\ IF retry /\ sl = "Ok"
                THEN /\ obs' = called
                     /\ attempt' = attempt + 1
                     /\ UNCHANGED <<pc, exc, ret>>
                ELSE /\ obs' = [called EXCEPT
                                 !.del = fate,
                                 \* only ClientError is caught
                                 !.loopExit = IF fired \/ r = "Exc" \/ (r = "Ok" /\ d = "Exc")
                                              THEN "raised" ELSE "returned"]
                     /\ AfterDelete("Deleted")
                     /\ attempt' = attempt
    /\ UNCHANGED <<funcs, event, budget, resp, puts, remote>>

delete_key_group_with_retry == DeleteWithRetry("KeyGroup", key_group_max_retries)

delete_public_key_with_retry == DeleteWithRetry("PublicKey", public_key_max_retries)

delete_origin_access_control_with_retry ==
    DeleteWithRetry("OriginAccessControl", origin_access_control_max_retries)

\* one pass of delete_function_with_retry: in use, InvalidIfMatchVersion and
\* PreconditionFailed sleep and go on, on the last attempt too; every other
\* exception, whatever its class, ends the function with a log line
delete_function_with_retry ==
    /\ pc = "cf.delete.Function"
    /\ \E r \in ReadResponses \cup Alarmed, d \in DeleteResponses \cup Alarmed,
          sl \in {"Ok"} \cup Alarmed :
         LET conflict == r = "Ok" /\ d \in {"InUse", "InvalidIfMatchVersion", "PreconditionFailed"}
             fired == r = "Alarm" \/ (r = "Ok" /\ d = "Alarm") \/ (conflict /\ sl = "Alarm")
             last == attempt = function_max_retries - 1
             fate == CASE fired -> "timedout"
                       [] r = "NotFound" \/ (r = "Ok" /\ d = "NotFound") -> "absent"
                       [] r = "Ok" /\ d = "Ok" -> "accepted"
                       [] conflict -> "gaveup"
                       [] OTHER -> "failed"
             called == IF r = "Ok"
                       THEN [TokenRead(r) EXCEPT !.deletes = @ + 1, !.lastDelete = d,
                                                 !.conflicts = @ + (IF conflict THEN 1 ELSE 0),
                                                 !.sleeps = @ + (IF conflict THEN 1 ELSE 0)]
                       ELSE TokenRead(r)
         IN  /\ r # "Ok" => d = "Ok"
             /\ ~conflict => sl = "Ok"
             /\ alarm' = IF fired THEN "fired" ELSE alarm
             /\ IF conflict /\ sl = "Ok" /\ ~last
                THEN /\ obs' = called
                     /\ attempt' = attempt + 1
                     /\ UNCHANGED <<pc, exc, ret>>
                ELSE /\ obs' = [called EXCEPT !.del = fate, !.loopExit = "returned"]
                     /\ AfterDelete("Deleted")
                     /\ attempt' = attempt
    /\ UNCHANGED <<funcs, event, budget, resp, puts, remote>>

\* one pass of delete_response_policy_with_retry: in use and PreconditionFailed sleep
\* and go on; every other exception is retried after a sleep too, and re-raised on
\* the last attempt only; running out of attempts raises
delete_response_policy_with_retry ==
    /\ pc = "cf.delete.ResponsePolicy"
    /\ \E r \in ReadResponses \cup Alarmed, d \in DeleteResponses \cup Alarmed,
          sl \in {"Ok"} \cup Alarmed :
         LET conflict == r = "Ok" /\ d \in {"InUse", "PreconditionFailed"}
             ended == r = "NotFound" \/ (r = "Ok" /\ d \in {"Ok", "NotFound"})
             other == ~ended /\ ~conflict
             fired == r = "Alarm" \/ (r = "Ok" /\ d = "Alarm") \/ (~ended /\ sl = "Alarm")
             last == attempt = response_policy_max_retries - 1
             \* a TimeoutError in the sleep of a conflict is caught by the outer except
             caught == other \/ (conflict /\ sl = "Alarm")
             \* a TimeoutError in the sleep of the outer except leaves the function
             left == (caught /\ last) \/ (other /\ sl = "Alarm") \/ (conflict /\ sl = "Ok" /\ last)
             fate == CASE r = "NotFound" \/ (r = "Ok" /\ d = "NotFound") -> "absent"
                       [] r = "Ok" /\ d = "Ok" -> "accepted"
                       [] fired -> "timedout"
                       [] conflict -> "gaveup"
                       [] OTHER -> "failed"
             called == [(IF r = "Ok" THEN [TokenRead(r) EXCEPT !.deletes = @ + 1, !.lastDelete = d]
                         ELSE TokenRead(r))
                        EXCEPT !.conflicts = @ + (IF conflict THEN 1 ELSE 0),
                               !.others = @ + (IF caught THEN 1 ELSE 0),
                               !.sleeps = @ + (IF conflict \/ (caught /\ ~last) THEN 1 ELSE 0)]
         IN  /\ r # "Ok" => d = "Ok"
             /\ ended => sl = "Ok"
             /\ caught => obs.others < MaxOthers
             /\ sl = "Alarm" => (r # "Alarm" /\ d # "Alarm")
             /\ (caught /\ last /\ other) => sl = "Ok"
             /\ alarm' = IF fired THEN "fired" ELSE alarm
             /\ IF ended \/ left
                THEN /\ obs' = [called EXCEPT
                                 !.del = fate,
                                 !.loopExit = IF ended THEN "returned" ELSE "raised"]
                     /\ AfterDelete("Deleted")
                     /\ attempt' = attempt
                ELSE /\ obs' = called
                     /\ attempt' = attempt + 1
                     /\ UNCHANGED <<pc, exc, ret>>
    /\ UNCHANGED <<funcs, event, budget, resp, puts, remote>>

-----------------------------------------------------------------------------
(* update_resource and the update functions *)

\* update_resource: four kinds are updated in place, the others are deleted and
\* created again, whatever the delete did
update_resource ==
    /\ pc = "cf.update"
    /\ LET kind == event.ResourceType
       IN  /\ pc' = CASE kind \in {"DistributionUpdate", "HostedZoneLookup", "LambdaCodeUpdate"} ->
                           "cf.create." \o kind
                      [] kind = "ResponsePolicy" -> "cf.update.ResponsePolicy"
                      [] OTHER -> "cf.delete"
           /\ obs' = IF kind \in CF_RESOURCE_TYPES THEN [obs EXCEPT !.selected = kind] ELSE obs
    /\ UNCHANGED <<funcs, event, exc, budget, alarm, attempt, ret, resp, puts, remote>>

\* update_response_policy: get_response_headers_policy for the ETag, then
\* update_response_headers_policy, whatever the policy is now
update_response_policy ==
    /\ pc = "cf.update.ResponsePolicy"
    /\ IF ~Has("RequiredProperty")
       THEN CFRaise("KeyError") /\ UNCHANGED <<ret, obs>>
       ELSE \E rd \in {"Ok", "NotFound", "Fatal", "Exc"} \cup Alarmed,
               wr \in {"Ok", "Conflict", "Fatal", "Exc"} \cup Alarmed :
              IF rd # "Ok"
              THEN /\ wr = "Ok"
                   /\ obs' = [obs EXCEPT !.reads = @ + 1, !.firstLookup = rd]
                   /\ CFThrow(rd) /\ ret' = ret
              ELSE /\ obs' = [obs EXCEPT !.reads = @ + 1, !.writes = @ + 1,
                                         !.firstLookup = rd,
                                         !.conflicts = @ + (IF wr = "Conflict" THEN 1 ELSE 0)]
                   /\ IF wr = "Ok"
                      THEN Return("none", FALSE) /\ alarm' = alarm
                      ELSE CFThrow(wr) /\ ret' = ret
    /\ UNCHANGED <<funcs, event, budget, attempt, resp, puts, remote>>

\* has_self_origin of update_distribution
has_self_origin == remote.distSelf

\* existing_patterns of update_distribution: the patterns read before the loop
existing_patterns == {remote.distPatterns[i] : i \in DOMAIN remote.distPatterns}

\* new_behaviors of update_distribution: one per listed path whose pattern did not exist
new_behaviors ==
    LET keep(path) == path \notin existing_patterns
    IN  SelectSeq(event.ProtectedPaths, keep)

\* changes_made of update_distribution
changes_made == ~has_self_origin \/ new_behaviors # <<>>

\* update_distribution up to the decision to write: required properties,
\* get_distribution_config and get_distribution
update_distribution ==
    /\ pc = "cf.create.DistributionUpdate"
    /\ IF ~Has("RequiredProperty")
       THEN CFRaise("ValueError") /\ UNCHANGED <<ret, obs>>
       ELSE \E r \in {"Ok", "Fatal", "Exc"} \cup Alarmed :
              /\ obs' = [obs EXCEPT !.reads = @ + (IF r = "Ok" THEN 2 ELSE 1)]
              /\ IF r # "Ok"
                 THEN CFThrow(r) /\ ret' = ret
                 ELSE IF changes_made \/ ~has_self_origin
                 THEN pc' = "cf.update_distribution.write" /\ UNCHANGED <<exc, ret, alarm>>
                 ELSE Return("Updated", FALSE) /\ alarm' = alarm
    /\ UNCHANGED <<funcs, event, budget, attempt, resp, puts, remote>>

\* update_distribution, lines 898-922: one update_distribution call with IfMatch;
\* any error of the call is raised again
update_distribution_write ==
    /\ pc = "cf.update_distribution.write"
    /\ \E wr \in {"Ok", "Conflict", "Fatal", "Exc"} \cup Alarmed :
         /\ obs' = [obs EXCEPT !.writes = @ + 1,
                               !.conflicts = @ + (IF wr = "Conflict" THEN 1 ELSE 0),
                               !.written =
                                   DistributionConfig_written(with_placeholder(remote.distConfig))]
         /\ IF wr = "Ok"
            THEN /\ remote' = [remote EXCEPT !.distSelf = TRUE,
                                             !.distPatterns = @ \o new_behaviors,
                                             !.distConfig = obs'.written]
                 /\ Return("Updated", FALSE) /\ alarm' = alarm
            ELSE /\ CFThrow(wr) /\ ret' = ret
                 /\ remote' = remote
    /\ UNCHANGED <<funcs, event, budget, attempt, resp, puts>>

\* update_lambda_code up to update_function_code: properties, get_function, the
\* download of the package, the SSM parameter, then the write
update_lambda_code ==
    /\ pc = "cf.create.LambdaCodeUpdate"
    /\ IF ~Has("RequiredProperty")
       THEN CFRaise("KeyError") /\ UNCHANGED <<obs, attempt>>
       ELSE \E rd \in {"Ok", "Fatal", "Exc"} \cup Alarmed,
               wr \in {"Ok", "Fatal", "Exc"} \cup Alarmed :
              IF rd # "Ok"
              THEN /\ wr = "Ok"
                   /\ obs' = Count("reads")
                   /\ Raise(IF rd = "Alarm" THEN "TimeoutError" ELSE "ValueError")
                   /\ alarm' = Exit(rd) /\ attempt' = attempt
              ELSE /\ obs' = [obs EXCEPT !.reads = @ + 3, !.writes = @ + 1]
                   /\ IF wr = "Ok"
                      THEN /\ pc' = "cf.lambda.wait" /\ exc' = exc
                           /\ alarm' = alarm /\ attempt' = 0
                      ELSE CFThrow(wr) /\ attempt' = attempt
    /\ UNCHANGED <<funcs, event, budget, ret, resp, puts, remote>>

\* update_lambda_code, lines 1632-1658: one pass of the wait for the Active state,
\* or its end
update_lambda_code_wait ==
    /\ pc = "cf.lambda.wait"
    /\ \/ /\ attempt >= 1           \* max_wait_time is over
          /\ CFRaise("RuntimeError")
          /\ UNCHANGED <<obs, attempt>>
       \/ \E st \in {"Active", "Failed", "InProgress", "Exc"} \cup Alarmed :
            CASE st = "Active" ->
                   /\ obs' = Count("reads")
                   /\ pc' = "cf.lambda.publish" /\ UNCHANGED <<exc, alarm, attempt>>
              [] st = "InProgress" ->
                   /\ attempt < MaxPoll
                   /\ obs' = [obs EXCEPT !.reads = @ + 1, !.sleeps = @ + 1]
                   /\ attempt' = attempt + 1
                   /\ UNCHANGED <<pc, exc, alarm>>
              [] OTHER ->
                   /\ obs' = Count("reads")
                   /\ CFThrow(st) /\ attempt' = attempt
    /\ UNCHANGED <<funcs, event, budget, ret, resp, puts, remote>>

\* update_lambda_code, lines 1660-1699: publish_version, then create_alias, or
\* update_alias when the alias exists
update_lambda_code_publish ==
    /\ pc = "cf.lambda.publish"
    /\ \E pb \in {"Ok", "Fatal", "Exc"} \cup Alarmed, al \in {"Ok", "Exists", "Fatal"} :
         IF pb # "Ok"
         THEN /\ al = "Ok"
              /\ obs' = Count("writes")
              /\ CFThrow(pb) /\ ret' = ret
         ELSE /\ obs' = [obs EXCEPT !.writes = @ + (IF al = "Exists" THEN 3 ELSE 2)]
              /\ IF al = "Fatal"
                 THEN CFRaise("ClientError") /\ ret' = ret
                 ELSE Return("none", FALSE) /\ alarm' = alarm
    /\ UNCHANGED <<funcs, event, budget, attempt, resp, puts, remote>>

-----------------------------------------------------------------------------
(* Delete of a DistributionUpdate *)

\* remove_function_associations_from_distribution: get_distribution_config, and
\* update_distribution when an association was found; every exception is logged
\* and dropped
remove_function_associations_from_distribution ==
    /\ pc = "cf.remove_associations"
    /\ IF ~Has("RequiredProperty")
       THEN AfterDelete("Deleted") /\ UNCHANGED <<obs, alarm, attempt, remote>>
       ELSE \E rd \in {"Ok", "Fatal", "Exc"} \cup Alarmed, found \in BOOLEAN,
               wr \in {"Ok", "Conflict", "Fatal", "Exc"} \cup Alarmed :
              LET fired == rd = "Alarm" \/ (rd = "Ok" /\ found /\ wr = "Alarm")
                  first == [obs EXCEPT !.reads = @ + 1, !.firstLookup = rd]
                  cleaned ==
                      DistributionConfig_written(_zero_fn_associations(remote.distConfig))
              IN  /\ rd # "Ok" => (~found /\ wr = "Ok")
                  /\ ~found => wr = "Ok"
                  /\ alarm' = IF fired THEN "fired" ELSE alarm
                  /\ attempt' = 0
                  /\ IF rd = "Ok" /\ found /\ wr = "Ok"
                     THEN /\ obs' = [first EXCEPT !.writes = @ + 1, !.del = "accepted",
                                                  !.written = cleaned]
                          /\ remote' = [remote EXCEPT !.distConfig = cleaned]
                          /\ pc' = "cf.wait_deployed" /\ UNCHANGED <<exc, ret>>
                     ELSE /\ remote' = remote
                          /\ obs' = [first EXCEPT
                                       !.writes = @ + (IF rd = "Ok" /\ found THEN 1 ELSE 0),
                                       !.written = IF rd = "Ok" /\ found THEN cleaned ELSE @,
                                       !.conflicts = @ + (IF wr = "Conflict" THEN 1 ELSE 0),
                                       !.del = IF fired THEN "timedout"
                                               ELSE IF rd = "Ok" /\ ~found THEN "absent"
                                               ELSE "failed"]
                          /\ AfterDelete("Deleted")
    /\ UNCHANGED <<funcs, event, budget, resp, puts>>

\* _wait_for_distribution_deployed: one pass of the loop, or its end; an exception of
\* the read is logged and dropped, one raised in the sleep leaves the function and
\* is dropped by the caller
_wait_for_distribution_deployed ==
    /\ pc = "cf.wait_deployed"
    /\ \/ /\ attempt >= 1           \* the timeout is over: a warning
          /\ obs' = [obs EXCEPT !.del = "timedout"]
          /\ AfterDelete("Deleted")
          /\ UNCHANGED <<alarm, attempt>>
       \/ \E st \in {"Deployed", "InProgress", "Exc"} \cup Alarmed, sl \in {"Ok"} \cup Alarmed :
            /\ st \in {"Deployed", "Alarm"} => sl = "Ok"
            /\ alarm' = IF st = "Alarm" \/ sl = "Alarm" THEN "fired" ELSE alarm
            /\ IF st = "Deployed"
               THEN /\ obs' = Count("reads")
                    /\ AfterDelete("Deleted") /\ attempt' = attempt
               ELSE IF sl = "Alarm"
               THEN /\ obs' = [obs EXCEPT !.reads = @ + 1, !.del = "timedout"]
                    /\ AfterDelete("Deleted") /\ attempt' = attempt
               ELSE /\ attempt < MaxPoll
                    /\ obs' = [obs EXCEPT !.reads = @ + 1, !.sleeps = @ + 1]
                    /\ attempt' = attempt + 1
                    /\ UNCHANGED <<pc, exc, ret>>
    /\ UNCHANGED <<funcs, event, budget, resp, puts, remote>>

-----------------------------------------------------------------------------
(* A second delivery of the same Update: the invocation starts again with the *)
(* same event, against the remote objects the first invocation left.          *)

Reinvoke ==
    /\ pc = "done"
    /\ event.seq = 1
    /\ event.RequestType = "Update"
    /\ obs.primary.status = SUCCESS
    /\ event' = [event EXCEPT !.seq = 2]
    /\ pc' = "start"
    /\ exc' = "none"
    /\ budget' = 0
    /\ alarm' = "idle"
    /\ attempt' = 0
    /\ ret' = NoRet
    /\ resp' = NoResp
    /\ puts' = <<>>
    /\ obs' = Obs0
    /\ remote' = remote
    /\ UNCHANGED funcs

-----------------------------------------------------------------------------
Next ==
    \/ Tick
    \/ LF_validate
    \/ LF_entry_check
    \/ LF_route
    \/ handle_resource
    \/ LF_success
    \/ LF_except
    \/ send_cloudformation_response
    \/ send_emergency_response
    \/ VpcLinkResource_create
    \/ VpcLinkResource_update
    \/ VpcLinkResource_update_vpc_link
    \/ _wait_for_vpc_link_available
    \/ VpcLinkResource_delete
    \/ VpcLinkResource_delete_vpc_link
    \/ _wait_for_vpc_link_deleted
    \/ AutoScalingResource_create
    \/ _create_launch_template
    \/ _create_auto_scaling_group
    \/ _wait_for_auto_scaling_group_ready
    \/ _create_scaling_policies
    \/ _cleanup_on_failure
    \/ AutoScalingResource_update
    \/ _update_auto_scaling_group
    \/ AutoScalingResource_delete
    \/ _delete_scaling_policies
    \/ _scale_down_auto_scaling_group
    \/ _scale_down_wait
    \/ _delete_auto_scaling_group
    \/ _delete_launch_template
    \/ WAFResource_create
    \/ _create_ipset
    \/ _create_webacl
    \/ WAFResource_update
    \/ _find_ipset_by_name
    \/ _update_ipset
    \/ _update_webacl_rules
    \/ WAFResource_delete
    \/ _delete_webacl
    \/ _delete_ipset
    \/ CognitoClientSecretResource_create
    \/ Cognito_update_secret
    \/ CognitoClientSecretResource_delete
    \/ CF_validate
    \/ CF_dispatch
    \/ CF_success
    \/ CF_except
    \/ send_response
    \/ send_response_minimal
    \/ CF_exit
    \/ create_resource
    \/ create_public_key
    \/ create_key_group
    \/ create_origin_access_control
    \/ create_response_policy
    \/ create_cloudfront_function
    \/ lookup_hosted_zone
    \/ delete_resource
    \/ delete_key_group_with_retry
    \/ delete_public_key_with_retry
    \/ delete_origin_access_control_with_retry
    \/ delete_function_with_retry
    \/ delete_response_policy_with_retry
    \/ update_resource
    \/ update_response_policy
    \/ update_distribution
    \/ update_distribution_write
    \/ update_lambda_code
    \/ update_lambda_code_wait
    \/ update_lambda_code_publish
    \/ remove_function_associations_from_distribution
    \/ _wait_for_distribution_deployed
    \/ Reinvoke

Spec == Init /\ [][Next]_vars

-----------------------------------------------------------------------------
(* The payloads the normalizer is applied to: a DistributionConfig as          *)
(* get_distribution_config returns it and update_distribution edits it, with   *)
(* optional keys absent, null or empty, and counts that may disagree with      *)
(* their lists.                                                                *)

Scalars == {VNone, VStr(""), VStr("x")}

Quantities == {VInt(0), VInt(2)}

AliasItems == {Missing, VNone, VList(<<>>), VList(<<VStr("x")>>)}

AliasesOf == {MkDict([Quantity |-> q, Items |-> i]) : q \in Quantities, i \in AliasItems}

S3OriginConfigs ==
    {Missing, VDict([OriginAccessIdentity |-> VStr("")]), VDict([OriginAccessIdentity |-> VNone])}

OriginsItemsOf ==
    {MkDict([Id |-> VStr("x"), DomainName |-> VStr(""), OriginPath |-> p, S3OriginConfig |-> s]) :
        p \in Scalars, s \in S3OriginConfigs}

AnOrigin == VDict([Id |-> VStr("y"), OriginPath |-> VStr("")])

OriginsOf ==
    {VDict([Quantity |-> VInt(0), Items |-> VList(<<o>>)]) : o \in OriginsItemsOf}
        \cup {VDict([Quantity |-> VInt(2), Items |-> VList(<<AnOrigin, AnOrigin>>)])}

FunctionAssociationsOf ==
    {Missing,
     VDict([Quantity |-> VInt(2)]),
     VDict([Quantity |-> VInt(2), Items |-> VList(<<>>)]),
     VDict([Quantity |-> VInt(0), Items |-> VList(<<VDict([EventType |-> VStr("x"), FunctionARN |-> VNone])>>)])}

ForwardedValuesOf == {Missing, VDict([QueryString |-> VStr("")])}

DefaultCacheBehaviorOf ==
    {MkDict([CachePolicyId |-> c, ForwardedValues |-> f, FieldLevelEncryptionId |-> e,
             FunctionAssociations |-> a]) :
        c \in {Missing, VNone, VStr("x")}, f \in ForwardedValuesOf, e \in {VNone, VStr("")},
        a \in FunctionAssociationsOf}

CacheBehaviorsOf ==
    {Missing,
     VDict([Quantity |-> VInt(2),
           Items |-> VList(<<VDict([PathPattern |-> VStr("x"), CachePolicyId |-> VStr("x"),
                                  ForwardedValues |-> VDict([QueryString |-> VStr("x")]),
                                  FieldLevelEncryptionId |-> VStr("")])>>)]),
     VDict([Items |-> VList(<<VDict([PathPattern |-> VStr(""),
                                  ForwardedValues |-> VDict([QueryString |-> VNone]),
                                  FieldLevelEncryptionId |-> VNone])>>)])}

Configs ==
    {MkDict([Comment |-> c, HttpVersion |-> h, Aliases |-> a, Origins |-> o,
             DefaultCacheBehavior |-> b, CacheBehaviors |-> cb]) :
        c \in {Missing, VNone, VStr("")}, h \in {VStr(""), VStr("x")},
        a \in {Missing} \cup AliasesOf, o \in OriginsOf,
        b \in {Missing} \cup DefaultCacheBehaviorOf, cb \in CacheBehaviorsOf}

-----------------------------------------------------------------------------
(* The normalizer on its own: a payload is drawn and cleaned; then the result  *)
(* is cleaned again, and so is the payload the caller still holds.  config is  *)
(* the payload as drawn, input what the caller's object holds now.  No         *)
(* invocation runs meanwhile.                                                  *)

invocation == <<event, pc, exc, budget, alarm, attempt, ret, resp, puts, remote, obs>>

NoInvocation ==
    /\ event = CHOOSE e \in Events : TRUE
    /\ pc = "idle"
    /\ exc = "none"
    /\ budget = 0
    /\ alarm = "idle"
    /\ attempt = 0
    /\ ret = NoRet
    /\ resp = NoResp
    /\ puts = <<>>
    /\ remote = CHOOSE r \in Remotes(event) : TRUE
    /\ obs = Obs0

CleanInit ==
    /\ NoInvocation
    /\ normalizer \in {[config |-> c, input |-> c, cleaned |-> Missing, again |-> Missing,
                        second |-> Missing, passes |-> 0] : c \in Configs}
    /\ timer = NoTimer
    /\ backoff = NoBackoff
    /\ store = NoStore

clean_once ==
    /\ normalizer.passes = 0
    /\ LET cleaned == clean_distribution_config(normalizer.input)
       IN  normalizer' = [normalizer EXCEPT !.cleaned = cleaned,
                                            !.input = payload_after(@, cleaned),
                                            !.passes = 1]
    /\ UNCHANGED <<invocation, timer, backoff, store>>

clean_again ==
    /\ normalizer.passes = 1
    /\ normalizer' = [normalizer EXCEPT !.again = clean_distribution_config(normalizer.cleaned),
                                        !.second = clean_distribution_config(normalizer.input),
                                        !.passes = 2]
    /\ UNCHANGED <<invocation, timer, backoff, store>>

CleanNext ==
    \/ clean_once
    \/ clean_again

CleanSpec == CleanInit /\ [][CleanNext]_vars

-----------------------------------------------------------------------------
(* TimeoutHandler.check_timeout (lambda_function.py) on its own: the handler  *)
(* is asked once, at some reading of the two clocks.  Times are milliseconds. *)

MAX_OPERATION_TIME == 14 * 60
EMERGENCY_RESPONSE_TIME == 15

\* a check that also gives up at the very margin and at the very ceiling
check_timeout_at_inclusive(context, remaining_ms, elapsed_ms) ==
    \/ context /\ remaining_ms <= EMERGENCY_RESPONSE_TIME * 1000
    \/ elapsed_ms >= MAX_OPERATION_TIME * 1000

\* TRUE when the timeout is approaching; buffer_seconds is EMERGENCY_RESPONSE_TIME
check_timeout_at(context, remaining_ms, elapsed_ms) ==
    IF context /\ remaining_ms < EMERGENCY_RESPONSE_TIME * 1000
    THEN TRUE
    ELSE IF elapsed_ms > MAX_OPERATION_TIME * 1000
    THEN TRUE
    ELSE FALSE

\* context.get_remaining_time_in_millis() at the check
RemainingReadings == {0, 1, 14999, 15000, 15001, 30000, 59999, 60000, 899000, 900000}

\* 1000 * (time.time() - start_time) at the check
ElapsedReadings == {0, 1, 1000, 839000, 839999, 840000, 840001, 841000, 885000, 900000}

TimerInit ==
    /\ NoInvocation
    /\ normalizer = NoNormalizer
    /\ backoff = NoBackoff
    /\ store = NoStore
    /\ timer \in [context : BOOLEAN, remaining_ms : RemainingReadings,
                   elapsed_ms : ElapsedReadings, timed_out : {FALSE}, result : {"none"}]

TimeoutHandler_check_timeout ==
    /\ timer.result = "none"
    /\ LET r == check_timeout_at(timer.context, timer.remaining_ms, timer.elapsed_ms)
       IN  timer' = [timer EXCEPT !.result = IF r THEN "True" ELSE "False",
                                  !.timed_out = r]
    /\ UNCHANGED <<invocation, normalizer, backoff, store>>

TimerNext == TimeoutHandler_check_timeout

TimerSpec == TimerInit /\ [][TimerNext]_vars

-----------------------------------------------------------------------------
(* The sleeps of the delete_*_with_retry loops (cloudfront_manager.py) on     *)
(* their own: a loop is run against a remote side that answers every attempt  *)
(* with an error, and the seconds of each time.sleep are recorded.            *)

\* whether the loop of a kind sleeps and goes on after the error code of an attempt
retries_after(kind, n, code) ==
    CASE kind = "ResponsePolicy" ->
           \/ code \in {"InUse", "PreconditionFailed"}
           \/ n < response_policy_max_retries - 1
      [] kind \in {"Function", "PathRewriteFunction"} ->
           code \in {"InUse", "InvalidIfMatchVersion", "PreconditionFailed"}
      [] OTHER ->
           code \in {"InUse", "InvalidIfMatchVersion"} /\ n < MaxRetries(kind) - 1

\* the argument of time.sleep before the next attempt
wait_time(kind, n, code) ==
    CASE kind = "ResponsePolicy" -> IF code = "PreconditionFailed" THEN 1 ELSE 2 ^ n
      [] kind \in {"Function", "PathRewriteFunction"} ->
           IF (n + 1) * 60 < 300 THEN (n + 1) * 60 ELSE 300
      [] OTHER -> (n + 1) * 30

BackoffInit ==
    /\ NoInvocation
    /\ normalizer = NoNormalizer
    /\ timer = NoTimer
    /\ backoff \in [kind : LoopKinds, attempt : {0}, slept : {<<>>}]
    /\ store = NoStore

\* one attempt of the loop that fails and is followed by a sleep
sleep_and_retry ==
    /\ backoff.attempt < MaxRetries(backoff.kind)
    /\ \E code \in DeleteResponses \ {"Ok", "NotFound"} :
         /\ retries_after(backoff.kind, backoff.attempt, code)
         /\ backoff' = [backoff EXCEPT
                           !.slept = Append(@, wait_time(backoff.kind, backoff.attempt, code)),
                           !.attempt = @ + 1]
    /\ UNCHANGED <<invocation, normalizer, timer, store>>

BackoffNext == sleep_and_retry

BackoffSpec == BackoffInit /\ [][BackoffNext]_vars

-----------------------------------------------------------------------------
(* Create delivered again: the same Create event, with the same properties,   *)
(* reaches the create call of its resource several times.  The remote side    *)
(* answers a create whose identity is that of an object it holds with its     *)
(* already-exists error, and any create may fail.  The handlers do no lookup  *)
(* of their own before the create call.                                       *)

\* deliveries of the same Create
MaxCreates == 3

CreateKinds ==
    {"VpcLink", "LaunchTemplate", "WebACL", "PublicKey", "KeyGroup", "OriginAccessControl",
     "Function"}

\* what identifies the object in the create request: its Name, and for a public key the
\* CallerReference, which is the name followed by a uuid4 drawn for the call
create_identity(kind, name, uuid) ==
    IF kind = "PublicKey" THEN <<name, uuid>> ELSE <<name>>

CreateInit ==
    /\ NoInvocation
    /\ normalizer = NoNormalizer
    /\ timer = NoTimer
    /\ backoff = NoBackoff
    /\ store \in [kind : CreateKinds, name : Names, objects : {{}}, uuid : {0},
                  creates : {0}, result : {"none"}]

\* the create call of one delivery, and what the handler makes of the answer: an existing
\* launch template is looked up and reused, any other error fails the Create
create_again ==
    /\ store.creates < MaxCreates
    /\ LET id == create_identity(store.kind, store.name, store.uuid)
       IN  \E r \in (IF id \in store.objects THEN {"AlreadyExists"} ELSE {"Ok"}) \cup {"Fatal"},
              found \in BOOLEAN :
             /\ (store.kind # "LaunchTemplate" \/ r # "AlreadyExists") => found
             /\ store' = [store EXCEPT
                            !.objects = IF r = "Ok" THEN @ \cup {id} ELSE @,
                            !.uuid = IF store.kind = "PublicKey" THEN @ + 1 ELSE @,
                            !.creates = @ + 1,
                            !.result = CASE r = "Ok" -> "created"
                                         [] r = "AlreadyExists" /\ store.kind = "LaunchTemplate"
                                              /\ found -> "reused"
                                         [] r = "AlreadyExists" -> "exists"
                                         [] OTHER -> "failed"]
    /\ UNCHANGED <<invocation, normalizer, timer, backoff>>

CreateNext == create_again

CreateSpec == CreateInit /\ [][CreateNext]_vars

-----------------------------------------------------------------------------
(* Properties *)

\* callbacks that reached the orchestrator
Delivered == Cardinality({i \in DOMAIN puts : puts[i].delivered})

\* an event with its verb, its kind, its correlation ids and its callback address
ValidEvent ==
    /\ event.RequestType \in RequestTypes
    /\ event.ResourceType \in RESOURCE_TYPES \cup CF_RESOURCE_TYPES
    /\ event.absent \notin {"LogicalResourceId", "StackId", "RequestId", "ResponseURL",
                            "ResourceProperties"}

isDelete == event.RequestType = "Delete"

\* a budget check found the budget exceeded, or the alarm of the budget went off
BudgetSeen == obs.budgetFound \/ alarm \in {"fired", "spent"}

\* C1: an invocation with a valid event ends with exactly one callback delivered,
\* never zero, never two
C1_ExactlyOneCallback == (pc = "done" /\ ValidEvent) => Delivered = 1

\* C2: no exception escapes lambda_handler, and an exception that reached the
\* except clauses was turned into a callback attempt
C2_NoEscape ==
    /\ pc # "escaped"
    /\ (pc = "done" /\ obs.raised # "none" /\ Has("ResponseURL")) => Len(puts) >= 1

C2_Witness ==
    /\ pc = "done" /\ obs.raised \in {"ClientError", "KeyError", "RuntimeError"}
    /\ Len(puts) >= 1

\* C3: when the budget was found exceeded, the response decided is SUCCESS for a
\* Delete and FAILED for a Create or an Update
C3_BudgetPolicy ==
    (pc = "done" /\ BudgetSeen /\ event.RequestType \in RequestTypes /\ obs.primary # NoResp)
        => obs.primary.status = (IF isDelete THEN SUCCESS ELSE FAILED)

\* C4: a Delete whose remote delete was answered with a non-retryable error is
\* answered SUCCESS, with Status DeleteFailed and the error in Data
C4_FatalDeleteFlagged ==
    (pc = "done" /\ isDelete /\ obs.lastDelete = "Fatal" /\ obs.primary # NoResp)
        => /\ obs.primary.status = SUCCESS
           /\ obs.primary.data = "DeleteFailed"
           /\ obs.primary.err

\* C5: a Delete answered SUCCESS without DeleteFailed or TimeoutOnDelete in
\* Data.Status is one whose remote delete did not fail, was not given up and
\* did not time out
C5_UnflaggedMeansDeleted ==
    (pc = "done" /\ isDelete /\ obs.primary.status = SUCCESS
       /\ obs.primary.data \notin {"DeleteFailed", "TimeoutOnDelete"})
        => obs.del \notin {"failed", "gaveup", "timedout"}

\* C6: a Delete whose first remote lookup is answered NotFound issues no remote
\* delete, retries nothing, sleeps never, and the response decided, which is the
\* first callback sent, is SUCCESS
C6_DeleteOfAbsent ==
    (isDelete /\ obs.firstLookup = "NotFound")
        => /\ obs.deletes = 0 /\ obs.sleeps = 0 /\ obs.writes = 0
           /\ obs.reads = 1 /\ obs.conflicts = 0 /\ obs.others = 0
           /\ attempt = 0
           /\ obs.primary # NoResp => obs.primary.status = SUCCESS
           /\ Len(puts) >= 1 => puts[1].status = SUCCESS
           /\ (pc = "done" /\ Has("ResponseURL")) => Len(puts) >= 1

C6_Witness ==
    /\ pc = "done" /\ isDelete /\ obs.firstLookup = "NotFound"
    /\ Len(puts) = 1 /\ puts[1].delivered /\ puts[1].status = SUCCESS

\* C7: the second of two identical Updates, meeting the resource the first one
\* left, issues no remote write
C7_SecondUpdateWritesNothing ==
    (event.seq = 2 /\ obs.firstLookup \in {"none", "Ok"}) => obs.writes = 0

\* C8: a retry-delete loop never makes more than max_retries attempts, each attempt
\* reads the version token once, and a delete accepted after N conflicts was
\* accepted after exactly N+1 reads of the token
C8_ConflictConvergence ==
    event.ResourceType \in LoopKinds
        => /\ obs.tokenReads <= MaxRetries(event.ResourceType)
           /\ obs.deletes <= obs.tokenReads
           /\ (obs.del = "accepted" /\ obs.others = 0) => obs.tokenReads = obs.conflicts + 1
           /\ (obs.del = "accepted" /\ obs.others = 0) => obs.deletes = obs.conflicts + 1

C8_Witness ==
    /\ event.ResourceType = "KeyGroup" /\ isDelete
    /\ obs.del = "accepted" /\ obs.conflicts = 2 /\ obs.tokenReads = 3 /\ obs.others = 0

\* C9: an Update whose version-token write met a conflict is not answered FAILED
\* while attempts remain
C9_ConflictRetried ==
    (event.RequestType = "Update"
       /\ event.ResourceType \in {"DistributionUpdate", "WAF", "ResponsePolicy"}
       /\ obs.conflicts \in 1..2 /\ obs.primary # NoResp)
        => obs.primary.status = SUCCESS

\* C10: an event without its verb, its kind or one of StackId, RequestId and
\* LogicalResourceId selects no resource handler and issues no remote call
C10_MalformedRejected ==
    (\/ event.RequestType = "None"
     \/ event.ResourceType = "None"
     \/ event.absent \in {"StackId", "RequestId", "LogicalResourceId"})
        => /\ obs.selected = "none"
           /\ obs.reads + obs.writes + obs.deletes = 0

\* the event failed the validation of its handler
Malformed == IF event.fn = "lf" THEN LF_missing_field ELSE CF_missing_field

\* C11: the response decided for an event that failed validation is FAILED,
\* whatever the verb
C11_ValidationFails ==
    (Malformed /\ obs.primary # NoResp) => obs.primary.status = FAILED

\* C12: an event that passed validation with a kind no handler supports performs no
\* remote operation and the response decided is FAILED, whatever the verb
C12_UnsupportedKind ==
    (event.ResourceType = "Other" /\ ~Malformed)
        => /\ obs.reads + obs.writes + obs.deletes = 0
           /\ obs.primary # NoResp => obs.primary.status = FAILED

\* C13: an invocation attempts at most two callback PUTs; the second is attempted
\* only after the first failed and carries the fixed FAILED envelope; and a primary
\* PUT that failed is followed by that second attempt
C13_OneFallbackPut ==
    /\ Len(puts) <= 2
    /\ Len(puts) = 2
         => /\ ~puts[1].delivered
            /\ puts[2].via \in {"emergency", "minimal"}
            /\ puts[2].status = FAILED /\ puts[2].data = "none"
    /\ (pc = "done" /\ Len(puts) = 1 /\ puts[1].via = "primary") => puts[1].delivered

\* C14: a callback whose Data could not be serialized is still put on the wire, with
\* the status decided, the error marker as Data and at most 500 characters of the
\* original data; the marker is used for nothing else
C14_SerializationFallback ==
    /\ \A i \in DOMAIN puts :
         puts[i].data = "SerializationFailed"
           => /\ puts[i].status = SUCCESS /\ puts[i].via = "primary"
              /\ puts[i].orig \in 1..ORIGINAL_DATA_LIMIT
    /\ (~resp.ser /\ Has("ResponseURL") /\ pc \notin {"send", "cf.send"})
         => \E i \in DOMAIN puts :
              /\ puts[i].data = "SerializationFailed" /\ puts[i].status = resp.status
              /\ puts[i].orig = Truncate(resp.len)

C14_Witness ==
    /\ pc = "done" /\ Len(puts) = 1 /\ puts[1].delivered
    /\ puts[1].data = "SerializationFailed" /\ puts[1].orig = ORIGINAL_DATA_LIMIT
    /\ puts[1].status = SUCCESS /\ resp.len > ORIGINAL_DATA_LIMIT

\* the poll loops
Pollers ==
    {"VpcLink.wait_available", "VpcLink.wait_deleted", "AutoScaling.wait_ready",
     "AutoScaling.wait_terminated", "cf.lambda.wait", "cf.wait_deployed"}

\* C15: a poller does not go on polling once the budget is exceeded: the budget
\* error ends it before its own maximum wait does
C15_PollerEndsOnBudget ==
    [][(pc \in Pollers /\ pc' = pc /\ attempt' = attempt + 1)
          => (budget = 0 /\ alarm' # "fired")]_vars

\* the kinds whose update changes the remote object in place after looking it up
InPlaceKinds == {"VpcLink", "AutoScaling", "WAF", "ResponsePolicy"}

\* C16: the step of an in-place Update whose lookup of the resource is answered
\* NotFound hands over to the create of the handler
C16_UpdateOfMissingRecreates ==
    [][(event.RequestType = "Update" /\ event.ResourceType \in InPlaceKinds
          /\ obs.firstLookup = "none" /\ obs'.firstLookup = "NotFound")
          => pc' \in {"VpcLink.Create", "AutoScaling.Create", "WAF.Create",
                      "cf.create.ResponsePolicy"}]_vars

\* C17: cleaning a cleaned payload changes nothing: clean(clean(c)) = clean(c)
C17_CleanIdempotent ==
    normalizer.passes = 2 => normalizer.again = normalizer.cleaned

\* a payload that the first pass changed in all its rules, cleaned a second time
C17_Witness ==
    /\ normalizer.passes = 2
    /\ normalizer.cleaned # normalizer.config
    /\ get_nested(normalizer.config, <<"Comment">>) = VStr("")
    /\ get_nested(normalizer.config, <<"HttpVersion">>) = VStr("")
    /\ get_nested(normalizer.cleaned, <<"HttpVersion">>) = VNone
    /\ get_nested(normalizer.config, <<"DefaultCacheBehavior", "ForwardedValues">>) # VNone
    /\ get_nested(normalizer.cleaned, <<"DefaultCacheBehavior", "ForwardedValues">>) = VNone
    /\ get_nested(normalizer.config, <<"Aliases", "Quantity">>) = VInt(2)
    /\ get_nested(normalizer.cleaned, <<"Aliases", "Quantity">>) = VInt(0)

\* the paths of the keys of obj, at every depth, that hold the value v
RECURSIVE paths_holding(_, _, _)
paths_holding(obj, path, v) ==
    IF obj.t = "dict"
    THEN UNION {(IF obj.d[k] = v THEN {Append(path, k)} ELSE {})
                    \cup paths_holding(obj.d[k], Append(path, k), v) : k \in DOMAIN obj.d}
    ELSE IF obj.t = "list"
    THEN UNION {paths_holding(obj.l[i], Append(path, ToString(i - 1)), v) : i \in DOMAIN obj.l}
    ELSE {}

\* the value at a path of obj, Missing when the path leads nowhere
RECURSIVE value_at(_, _)
value_at(obj, p) ==
    IF p = <<>> THEN obj
    ELSE IF obj.t = "dict"
    THEN IF Head(p) \in DOMAIN obj.d THEN value_at(obj.d[Head(p)], Tail(p)) ELSE Missing
    ELSE IF obj.t = "list"
    THEN LET at == {i \in DOMAIN obj.l : ToString(i - 1) = Head(p)}
         IN  IF at = {} THEN Missing ELSE value_at(obj.l[CHOOSE i \in at : TRUE], Tail(p))
    ELSE Missing

\* a path is on the preserve-list when a pattern of the list matches it key by key,
\* the pattern's "*" standing for the index of a list element
OnPreserveList(p) ==
    \E pat \in PRESERVE_EMPTY_PATHS :
        /\ Len(pat) = Len(p)
        /\ \A i \in 1..Len(pat) :
              IF pat[i] = "*" THEN p[i] \in {ToString(n) : n \in 0..9} ELSE pat[i] = p[i]

\* C18: of the keys of the payload, those holding "" at a preserved path are in the
\* result with "", those holding "" elsewhere are gone, and those holding null are gone
C18_EmptyAndNullKeys ==
    normalizer.passes >= 1 =>
        /\ \A p \in paths_holding(normalizer.config, <<>>, VStr("")) :
              IF OnPreserveList(p)
              THEN value_at(normalizer.cleaned, p) = VStr("")
              ELSE value_at(normalizer.cleaned, p) = Missing
        /\ \A p \in paths_holding(normalizer.config, <<>>, VNone) :
              value_at(normalizer.cleaned, p) = Missing

\* a cleaned payload that had "" under a wildcard path and at the top level, "" at a
\* path not preserved, and a nested null
C18_Witness ==
    /\ normalizer.passes = 1
    /\ value_at(normalizer.config, <<"Origins", "Items", "0", "OriginPath">>) = VStr("")
    /\ value_at(normalizer.config, <<"Comment">>) = VStr("")
    /\ value_at(normalizer.config, <<"Origins", "Items", "0", "DomainName">>) = VStr("")
    /\ value_at(normalizer.config,
                <<"Origins", "Items", "0", "S3OriginConfig", "OriginAccessIdentity">>) = VNone
    /\ value_at(normalizer.config, <<"DefaultCacheBehavior", "FieldLevelEncryptionId">>) = VNone

\* the number of elements of the Items of a counted collection, none when it has no list
items_count(coll_dict) ==
    IF value_at(coll_dict, <<"Items">>).t = "list" THEN Len(coll_dict.d["Items"].l) ELSE 0

\* C19: in a cleaned payload every counted collection of COLLECTION_PATHS has a
\* Quantity equal to the number of elements of its Items, absent Items counting zero
C19_QuantityMatchesItems ==
    normalizer.passes >= 1 =>
        \A i \in 1..Len(COLLECTION_PATHS) :
            LET coll_dict == value_at(normalizer.cleaned, COLLECTION_PATHS[i])
            IN  coll_dict.t = "dict" =>
                    value_at(coll_dict, <<"Quantity">>) = VInt(items_count(coll_dict))

\* C20: with a Lambda context, the check answers that the timeout is approaching
\* exactly when less than 15 s remain or more than 14 minutes have elapsed
C20_BudgetCheck ==
    (timer.result # "none" /\ timer.context) =>
        (timer.result = "True" <=>
            (timer.remaining_ms < 15 * 1000 \/ timer.elapsed_ms > 14 * 60 * 1000))

\* a check that passed at exactly 15 s remaining and exactly 14 minutes elapsed
C20_Witness ==
    /\ timer.context
    /\ timer.result = "False"
    /\ timer.remaining_ms = 15 * 1000
    /\ timer.elapsed_ms = 14 * 60 * 1000

\* remote calls issued so far
RemoteCalls == obs.reads + obs.writes + obs.deletes

\* C21: once a budget check has failed, the invocation issues no further remote call
C21_NoCallAfterBudgetFailed ==
    [][(obs.budgetFound /\ pc # "done") => obs'.reads + obs'.writes + obs'.deletes = RemoteCalls]_vars

\* C22: a convergence poll returns normally only when the status it read last is the
\* terminal success; every other end of the poll is an error raised
C22_PollEndsThreeWays ==
    [][/\ (pc = "VpcLink.wait_available" /\ pc' # pc) =>
             IF pc' = "returned" THEN obs'.polled = "AVAILABLE" ELSE pc' = "except"
       /\ (pc = "VpcLink.wait_deleted" /\ pc' = "returned" /\ ~ret'.err) =>
             obs'.polled = "NotFound"
       /\ (pc = "AutoScaling.wait_terminated" /\ pc' # pc) =>
             obs'.polled = "Empty"]_vars

\* the longest of the sleeps of a loop
LongestSleep(slept) == CHOOSE d \in {slept[i] : i \in DOMAIN slept} :
                           \A i \in DOMAIN slept : slept[i] <= d

\* C23: the sleeps of a retry loop are min(baseDelay * 2^n, maxDelay) for n = 0, 1, ...:
\* baseDelay is the first sleep and maxDelay the longest one
C23_ExponentialBackoff ==
    \A i \in DOMAIN backoff.slept :
        LET doubled == backoff.slept[1] * 2 ^ (i - 1)
            longest == LongestSleep(backoff.slept)
        IN  backoff.slept[i] = IF doubled < longest THEN doubled ELSE longest

\* where the retry loops of the deletes run
RetryLoops == {"cf.delete." \o kind : kind \in LoopKinds}

\* C24: an attempt of a retry loop whose delete is answered with a fatal error is the
\* last one: the loop is left at once, without a sleep
C24_FatalStopsRetry ==
    [][(pc \in RetryLoops /\ obs'.deletes = obs.deletes + 1 /\ obs'.lastDelete = "Fatal")
          => (pc' # pc /\ obs'.sleeps = obs.sleeps)]_vars

\* C25: a retry loop that ran out of attempts on conflicts ends by raising to its
\* caller; it does not return as a loop whose delete was accepted does
C25_ExhaustionReported ==
    obs.del = "gaveup" => obs.loopExit = "raised"

\* where a write guarded by a version token is issued together with its read
GuardedWrites ==
    {"WAF.update_ipset", "WAF.update_webacl_rules", "cf.update.ResponsePolicy",
     "cf.remove_associations"}

\* C26: a guarded delete of a retry loop is issued in a pass that read the version
\* token itself, so pass n holds the token of read n; a guarded write is issued with
\* the read of its own step, and the write of update_distribution after the reads of
\* its own invocation
C26_FreshToken ==
    [][/\ (pc \in RetryLoops /\ obs'.deletes = obs.deletes + 1) =>
             (obs'.tokenReads = attempt + 1 /\ obs'.reads = obs.reads + 1)
       /\ (pc \in GuardedWrites /\ obs'.writes > obs.writes) =>
             obs'.reads = obs.reads + 1
       /\ (pc = "cf.update_distribution.write" /\ obs'.writes > obs.writes) =>
             obs.reads >= 1]_vars

\* a delete accepted on the third pass of a loop, which read the token three times
C26_Witness ==
    /\ pc = "done" /\ event.ResourceType = "OriginAccessControl" /\ isDelete
    /\ attempt = 2 /\ obs.tokenReads = 3 /\ obs.deletes = 3 /\ obs.lastDelete = "Ok"

\* C27: an invocation whose write of the distribution was rejected because another
\* writer had used the version token first ends with SUCCESS, and its change is in
\* the distribution
C27_RaceResolved ==
    (pc = "done" /\ event.ResourceType = "DistributionUpdate" /\ ~isDelete
       /\ obs.conflicts >= 1 /\ obs.writes >= 1 /\ obs.primary # NoResp)
        => (obs.primary.status = SUCCESS /\ remote.distSelf)

\* the paths of the objects of obj, at every depth, that have both CachePolicyId and
\* ForwardedValues among their keys
RECURSIVE both_fields(_, _)
both_fields(obj, path) ==
    IF obj.t = "dict"
    THEN (IF {"CachePolicyId", "ForwardedValues"} \subseteq DOMAIN obj.d THEN {path} ELSE {})
            \cup UNION {both_fields(obj.d[k], Append(path, k)) : k \in DOMAIN obj.d}
    ELSE IF obj.t = "list"
    THEN UNION {both_fields(obj.l[i], Append(path, ToString(i - 1))) : i \in DOMAIN obj.l}
    ELSE {}

\* C28: no object of a cleaned payload has both CachePolicyId and ForwardedValues, and
\* an object of the payload that had both has lost ForwardedValues and kept its
\* CachePolicyId
C28_LegacyFieldDropped ==
    normalizer.passes >= 1 =>
        /\ both_fields(normalizer.cleaned, <<>>) = {}
        /\ \A p \in both_fields(normalizer.config, <<>>) :
              /\ value_at(normalizer.cleaned, Append(p, "ForwardedValues")) = Missing
              /\ value_at(normalizer.cleaned, Append(p, "CachePolicyId"))
                    = value_at(normalizer.config, Append(p, "CachePolicyId"))

C30_WritesAreNormalized ==
    [][(event.ResourceType = "DistributionUpdate" /\ obs'.writes > obs.writes /\ pc # "done")
          => /\ obs'.written # Missing
             /\ clean_distribution_config(obs'.written) = obs'.written]_vars

\* a Delete that wrote the distribution without its function associations: the empty
\* Items the handler had put in was removed by the cleaning
C30_Witness ==
    /\ pc = "done" /\ event.ResourceType = "DistributionUpdate" /\ isDelete
    /\ obs.writes = 1 /\ obs.del = "accepted"
    /\ value_at(obs.written, <<"DefaultCacheBehavior", "FunctionAssociations", "Quantity">>)
          = VInt(0)
    /\ value_at(obs.written, <<"DefaultCacheBehavior", "FunctionAssociations", "Items">>)
          = Missing
    /\ value_at(obs.written, <<"DefaultCacheBehavior", "FieldLevelEncryptionId">>) = VStr("")

\* C31: however often the same Create is delivered, at most one remote object of the
\* resource exists: a Create that meets the object of an earlier one is answered
\* already-exists (CreateSpec)
C31_NoDuplicate == Cardinality(store.objects) <= 1

\* C32: a remote step of a Create handler that needs the object of an earlier step is
\* issued only after that step returned it: the Auto Scaling group after the launch template
\* was created or, already existing, found; the WebACL of an allow-list after its IPSet;
\* publish_function after create_function
C32_DependentStepsSequenced ==
    /\ "create_auto_scaling_group" \in obs.issued =>
          \/ "create_launch_template" \in obs.succeeded
          \/ "describe_launch_templates" \in obs.succeeded
    /\ ("create_web_acl" \in obs.issued /\ event.cidrs) => "create_ip_set" \in obs.succeeded
    /\ "publish_function" \in obs.issued => "create_function" \in obs.succeeded

C32_Witness ==
    /\ pc = "done"
    /\ event.ResourceType = "WAF" /\ event.RequestType = "Create" /\ event.cidrs
    /\ obs.issued = {"create_ip_set", "create_web_acl"}
    /\ obs.succeeded = obs.issued
    /\ obs.primary.status = SUCCESS

\* C32 as stated: every remote step of a handler is issued only after the steps issued
\* before it have all succeeded
C32_EveryStepAfterSuccess ==
    [][obs'.issued # obs.issued => obs.issued \subseteq obs.succeeded]_vars

\* C33: for a Create or an Update, SUCCESS is decided only when the resource handler
\* has returned normally; when an exception reached lambda_handler, or the budget or
\* the alarm ran out before the response was decided, the response decided is FAILED
C33_SuccessOnlyAfterReturn ==
    [][(event.RequestType \in {"Create", "Update"}
          /\ obs.primary = NoResp /\ obs'.primary # NoResp)
        => /\ obs'.primary.status \in {SUCCESS, FAILED}
           /\ obs'.primary.status = SUCCESS => (pc = "returned" /\ obs'.raised = "none")
           /\ (obs'.raised # "none" \/ BudgetSeen) => obs'.primary.status = FAILED]_vars

\* C34: whenever the alarm fires inside the with block of cloudfront_manager.lambda_handler
\* (in a remote call, in a retry sleep, during or after the PUT of send_response), at
\* most one callback PUT of the invocation is delivered
C34_AlarmNeverDoublesCallback ==
    (event.fn = "cf" /\ alarm \in {"fired", "spent"}) => Delivered <= 1

\* C35: in cloudfront_manager, once the alarm has fired the invocation issues no further
\* remote write or delete, and the response it then decides reports the timeout: FAILED
\* for a Create or an Update, SUCCESS with Status TimeoutOnDelete for a Delete
C35_TimeoutNeverSwallowed ==
    [][(event.fn = "cf" /\ alarm \in {"fired", "spent"})
        => /\ obs'.writes = obs.writes
           /\ obs'.deletes = obs.deletes
           /\ (obs.primary = NoResp /\ obs'.primary # NoResp) =>
                 IF isDelete
                 THEN obs'.primary.status = SUCCESS /\ obs'.primary.data = "TimeoutOnDelete"
                 ELSE obs'.primary.status = FAILED]_vars

\* C36: whatever ProtectedPaths lists, a path listed twice included, the cache behaviors
\* update_distribution leaves on a distribution that had no duplicates hold no
\* PathPattern twice
C36_NoDuplicateBehaviors ==
    event.ResourceType = "DistributionUpdate" =>
        \A i, j \in DOMAIN remote.distPatterns :
              i # j => remote.distPatterns[i] # remote.distPatterns[j]

\* C37: the WebACL that WAFResource create and update leave has DefaultAction Block
\* exactly when its rules hold the IP allow-list rule, and Allow exactly when it has no
\* rule: never Block without an allow rule
C37_BlockOnlyWithAllowRule ==
    (event.ResourceType = "WAF" /\ remote.webacl # NoWebACL)
        => /\ remote.webacl.DefaultAction = "Block"
                <=> remote.webacl.Rules = <<"IPAllowlistRule">>
           /\ remote.webacl.DefaultAction = "Allow" <=> remote.webacl.Rules = <<>>

C37_Witness ==
    /\ pc = "done" /\ event.ResourceType = "WAF" /\ event.RequestType = "Update"
    /\ event.seq = 2 /\ ~event.cidrs
    /\ obs.writes = 1 /\ obs.primary.status = SUCCESS
    /\ remote.webacl = [DefaultAction |-> "Allow", Rules |-> <<>>]

\* C38: when AutoScalingResource.create fails, _cleanup_on_failure deletes exactly what
\* this invocation created: the launch template if and only if create_launch_template
\* succeeded, the group if and only if create_auto_scaling_group succeeded; and the
\* failure is raised after the cleanup
C38_CleanupDeletesOwn ==
    (pc = "done" /\ "describe_auto_scaling_groups" \in obs.cleanup)
        => /\ "delete_launch_template" \in obs.cleanup
                <=> "create_launch_template" \in obs.succeeded
           /\ "delete_auto_scaling_group" \in obs.cleanup
                <=> "create_auto_scaling_group" \in obs.succeeded
           /\ obs.raised = "ValueError"

\* the positions of an invocation in the order the code goes through them: no step goes
\* back in this order, except that a TimeoutError raised when the with block is left
\* (CF_exit) leads to the except clauses, by then with the alarm cancelled
ProgramOrder ==
    <<"start", "cf.with", "cf.update", "cf.delete", "cf.delete.Function",
      "cf.delete.KeyGroup", "cf.delete.OriginAccessControl", "cf.delete.PublicKey",
      "cf.create", "cf.create.DistributionUpdate", "cf.update_distribution.write",
      "cf.create.Function", "cf.create.HostedZoneLookup", "cf.create.KeyGroup",
      "cf.create.LambdaCodeUpdate", "cf.lambda.wait", "cf.lambda.publish",
      "cf.create.OriginAccessControl", "cf.create.PathRewriteFunction",
      "cf.create.PublicKey", "cf.create.ResponsePolicy", "cf.delete.ResponsePolicy",
      "cf.remove_associations", "cf.wait_deployed", "cf.update.ResponsePolicy", "entry",
      "route", "handle", "AutoScaling.Delete", "AutoScaling.delete_scaling_policies",
      "AutoScaling.Update", "AutoScaling.Create", "AutoScaling.create_launch_template",
      "AutoScaling.create_auto_scaling_group", "AutoScaling.wait_ready",
      "AutoScaling.cleanup", "AutoScaling.scale_down", "AutoScaling.wait_terminated",
      "AutoScaling.delete_auto_scaling_group", "AutoScaling.delete_launch_template",
      "AutoScaling.create_extras", "AutoScaling.update_auto_scaling_group",
      "CognitoClientSecret.Create", "CognitoClientSecret.Delete",
      "CognitoClientSecret.Update", "CognitoClientSecret.update_secret", "VpcLink.Delete",
      "VpcLink.delete_vpc_link", "VpcLink.wait_deleted", "VpcLink.Update",
      "VpcLink.update_vpc_link", "VpcLink.Create", "VpcLink.wait_available", "WAF.Delete",
      "WAF.delete_webacl", "WAF.delete_ipset", "WAF.Update", "WAF.Create",
      "WAF.create_ipset", "WAF.create_webacl", "WAF.find_ipset", "WAF.update.create_ipset",
      "WAF.update_ipset", "WAF.update_webacl_rules", "except", "returned", "cf.send",
      "cf.send_minimal", "cf.exit", "send", "emergency", "done">>

Position(p) == CHOOSE i \in DOMAIN ProgramOrder : ProgramOrder[i] = p

\* 0, 1: first delivery, inside the with block and after it; 2, 3: second delivery
Phase == (event.seq - 1) * 2 + (IF alarm \in {"off", "spent"} THEN 1 ELSE 0)

\* what is left of an invocation: deliveries and block, then positions, then loop
\* passes, then budget; a natural number
Remaining ==
    (((3 - Phase) * Len(ProgramOrder) + (Len(ProgramOrder) - Position(pc)))
        * (function_max_retries + 1) + (function_max_retries - attempt)) * 3
      + (2 - budget)

\* C39: every invocation ends, at its callback step, whatever the remote side answers:
\* every step leaves less of the invocation to do (no loop goes on for ever), a step is
\* possible until the invocation is done, no delete retry loop makes more than
\* max_retries delete attempts, and an invocation that is done has made its callback PUT.
\* (The write of update_distribution is left out of the second part: its only guard is
\* its position, and it has an outcome for every response.)
C39_Terminates ==
    /\ [][Remaining' < Remaining]_vars
    /\ [](Remaining >= 0)
    /\ [](pc \notin {"done", "cf.update_distribution.write"} => ENABLED Next)
    /\ [](\A kind \in LoopKinds :
             pc = "cf.delete." \o kind =>
                 (attempt <= MaxRetries(kind) /\ obs.deletes <= MaxRetries(kind)))
    /\ []((pc = "done" /\ Has("ResponseURL")) => Len(puts) >= 1)

C39_Witness ==
    /\ pc = "done"
    /\ event.ResourceType = "KeyGroup"
    /\ event.RequestType = "Delete"
    /\ obs.deletes = key_group_max_retries
    /\ obs.del = "gaveup"
    /\ Len(puts) >= 1

=============================================================================
